---- MODULE Spec2Model ----
(***************************************************************************)
(* Model of the incremental sync engine of onedrive-backup                 *)
(* (src/src/onedrive_backup/sync/backup_manager.py).                       *)
(*                                                                         *)
(* Spec      the per-target pipeline of _process_items_with_delta: one     *)
(*           producer thread draining the walker's generator into the      *)
(*           bounded queue of FileQueueManager, NWorkers threads running   *)
(*           _parallel_upload_worker, the destination bucket and the       *)
(*           persisted delta cursor; two consecutive runs of one target.   *)
(* RerunSpec the same pipeline run twice on one target, in an environment  *)
(*           where no request fails.                                       *)
(* WalkSpec  the delta walker _stream_delta_files request by request, the  *)
(*           server answering each request in any way it can, followed by  *)
(*           the save of the cursor; WalkFairSpec adds that the walker     *)
(*           keeps running.                                                *)
(* FallbackSpec  the recursive timestamp fallback over a drive in any      *)
(*           state of modification.                                        *)
(* CancelSpec  the pipeline with the stop event set at any moment.         *)
(* RepeatSpec  a run in which requests may fail, then a run without        *)
(*           failures whose walk starts from the persisted cursor.         *)
(* AuthSpec  the shared token source (auth/microsoft_auth.py) called by    *)
(*           the producer and the workers concurrently.                    *)
(* DownloadSpec  the download and the put of one file, request by request; *)
(*           RequestSpec is a walk of WalkSpec or a download.              *)
(* RateSpec  a walk whose first requests are answered 429, against the     *)
(*           clock of the workers' dequeue timeout.                        *)
(* ConvergeSpec  one file that is modified during a walk, and the run      *)
(*           that follows.                                                 *)
(* JobSpec   run_backup_job over the sources of a job and their targets,  *)
(*           with the metadata objects it puts.                            *)
(* LoadSpec  the load of the cursor of a target from any object, or none,  *)
(*           followed by the walk of WalkSpec.                             *)
(* TrackerSpec  the file tracker (sync/file_tracker.py) under any calls   *)
(*           of has_file_changed and update_file_info.                     *)
(* StampSpec  the time _save_delta_token stores with a cursor, and the   *)
(*           timestamp fallback of the next run that is filtered on it.    *)
(* PathSpec  the destination path the delta route and the fallback build  *)
(*           for one item, and the keys a worker heads and puts.           *)
(* BackoffSpec  the requests of the delta pages with the retry loop that   *)
(*           follows a 429.                                                *)
(* DescendSpec  the recursive timestamp fallback call by call, the thread  *)
(*           of the producer running it to its end.                        *)
(***************************************************************************)
EXTENDS Integers, Sequences, FiniteSets, TLC

(***************************************************************************)
(* Bounds of the model.                                                    *)
(***************************************************************************)
\* max_parallel_workers (configurable, default 20): the number of worker threads.
NWorkers == 2
\* The number of distinct files a walker can emit for the target in one run.
MaxFiles == 3

Workers == 1..NWorkers
Files == 1..MaxFiles

\* _SENTINEL = object(): the queue entry that tells a worker to exit.
SENTINEL == 0

\* queue.Queue(maxsize=max_workers*2)
QueueCap == NWorkers * 2

\* The lastModifiedDateTime the source reports for a file (the source does not
\* change during the runs of Spec); 0 stands for "no object" at the destination
\* and OldMtime for an object stored from an earlier version of the file.
SrcMtime(f) == 2
OldMtime == 1
Absent == 0

\* The delta link the server hands out at the end of the walk of run r.
NewToken(r) == r

\* No cursor persisted / no terminal marker captured (None in the code).
NoToken == 0
\* A cursor persisted by an earlier execution of the program.
PriorToken == 9

\* The drive walked by the timestamp fallback: a chain of folders below the
\* root, one file in each folder, and in the root a OneNote notebook, an item
\* with the facet "package" and neither "file" nor "folder".
SubFolders == {"a", "b", "c"}
DriveFiles == {"f0", "f1", "f2", "f3"}
Packages == {"n0"}
Items == SubFolders \cup DriveFiles \cup Packages
Children(folder) ==
    CASE folder = "root" -> {"a", "f0", "n0"}
      [] folder = "a" -> {"b", "f1"}
      [] folder = "b" -> {"c", "f2"}
      [] folder = "c" -> {"f3"}
\* The depth parameter with which the folder that holds the file is listed.
ParentDepth(file) ==
    CASE file = "f0" -> 0
      [] file = "f1" -> 1
      [] file = "f2" -> 2
      [] file = "f3" -> 3
\* max_depth (default 10): folders are listed down to this depth.
MaxDepth == 2
\* Times in half seconds: an odd time has a sub-second part.
Times == 2..4
LastBackupTimes == 2..3

\* The value of `response` before any request.
NoResponse == [status |-> 0, link |-> "none", token |-> NoToken]

VARIABLES
    \* ---- pipeline (Spec) ----
    run,                \* 1 or 2: which run of the target is in progress
    dry_run,            \* job_config.dry_run
    cursor,             \* delta_token persisted in the destination for the target
    dest,               \* dest[f]: source-modified-time metadata of the object at f's key
    ppc,                \* position of the producer (the thread in _process_items_with_delta)
    emitted,            \* files 1..emitted have been yielded by the walker in this run
    final_delta_token,  \* local final_delta_token of _process_items_with_delta
    sent,               \* sentinels already put by signal_done
    file_queue,         \* FileQueueManager.file_queue
    wpc,                \* wpc[w]: position of worker w in _parallel_upload_worker
    wfile,              \* wfile[w]: the file_info worker w holds
    wout,               \* wout[w]: the outcome worker w is about to report to update_stats
    whead,              \* whead[w]: how the last head_object of worker w ended
    wtmp,               \* wtmp[w]: the counter value worker w has loaded for "+= 1"
    files_processed,    \* FileQueueManager counters
    files_uploaded,
    files_skipped,
    bytes_transferred,
    errors,             \* number of strings in FileQueueManager.errors
    \* ---- history of the run (not program state) ----
    taken,              \* taken[f]: how many times f was dequeued in this run
    handled,            \* files whose processing by a worker has finished in this run
    destAfter1,         \* the destination as the first run left it
    emittedFirst,       \* how many files the walker yielded in the first run
    \* ---- delta walker (WalkSpec): the generator _stream_delta_files ----
    wkpc,               \* position of the walker
    delta_token,        \* parameter delta_token: the cursor loaded by _get_delta_token
    fallback_timestamp, \* parameter fallback_timestamp: whether a last_backup_time was loaded
    endpoint,           \* local endpoint: "cursor", "root" (the root /delta URL) or "next"
    page,               \* pages received with status 200 in the paging in progress
    response,           \* the last response: status, the link the page carries, its delta link
    retry,              \* 429 retries already made for the request in progress
    yielded,            \* file dicts yielded so far, each with the code path that yielded it
    markers,            \* the {'_delta_token': ...} dicts yielded so far
    \* ---- history of the walk (not program state) ----
    route,              \* "delta": no 410 so far; "fallback": the cursor URL answered 410
                        \* and lines 1073-1102 are under way or have returned; "late":
                        \* the same after a 410 on a later request; "restart": line 1110
                        \* has been reached
    rootRequests,       \* requests sent to the root /delta URL, counted up to CountCap
    sawDeltaLink,       \* some response of the walk carried @odata.deltaLink
    throttled,          \* the last that many answers to the request in progress were 429
    forced,             \* forced token refreshes made for the request in progress
    \* ---- timestamp fallback (FallbackSpec): _stream_*_files_recursive ----
    lastModified,       \* lastModifiedDateTime of every item of the drive
    last_backup_time,   \* the last_backup_time of the cursor JSON (fallback_timestamp)
    filter_supported,   \* the server evaluates $filter on children (else it answers 400)
    fpc,                \* "idle", "walk" (fallback_func called), "done" (exhausted)
    found,              \* the files the fallback walk yielded
    \* ---- cancellation (CancelSpec) ----
    stop_event,         \* FileQueueManager.stop_event is set
    \* ---- token source (AuthSpec): the shared MicrosoftGraphAuth ----
    access_token,       \* _access_token: 0 for None, else the number of the token
    token_expired,      \* the clock has passed _token_expiry minus the 5-minute buffer
    issued,             \* tokens the authority has issued so far
    apc,                \* apc[c]: position of caller c in get_access_token
    force_refresh,      \* force_refresh[c]: the argument of caller c's call
    returned,           \* returned[c]: what caller c's last call returned
    \* ---- one download and put (DownloadSpec): _stream_to_aws_s3 ----
    needs_auth,         \* the download URL is a Graph /content URL
    dpc,                \* position within _stream_to_aws_s3
    attempt,            \* loop variable attempt of the download loop
    dstatus,            \* response.status_code of the last download response
    retry_delay,        \* local retry_delay, in seconds
    slept,              \* the argument of the last time.sleep, 0 before the first
    puts,               \* calls of upload_fileobj made for the file
    dresult,            \* what the call returned: "success", "download", "error"
    \* ---- history of the download (not program state) ----
    dthrottled,         \* the last that many download responses were 429
    dforced,            \* forced token refreshes made for the file
    dfile,              \* file_info: the path, lastModifiedDateTime and size of the file
    buffered,           \* bytes of the body held in file_content
    put_meta,           \* ExtraArgs['Metadata'] of every upload_fileobj call, in order
    \* ---- a rate-limited walk against the clock (RateSpec) ----
    throttle,           \* the server answers 429 to that many delta requests, then 200
    clock,              \* seconds since the worker threads were submitted
    rpc,                \* position of the producer thread and its walker
    answered,           \* delta requests answered so far
    rdelay,             \* local retry_delay of the walker's retry loop
    rretry,             \* loop variable retry of the walker's retry loop
    alive,              \* the workers are in their loop (they wait in step)
    rsent,              \* files put on the queue
    rprocessed,         \* files_processed
    \* ---- one file that changes during a walk (ConvergeSpec) ----
    srcVersion,         \* the lastModifiedDateTime of the file at the source
    cpath,              \* "delta": the cursor is accepted; "fallback": it is answered 410
    cpc,                \* position of the run: "list", "link", "upload", "save", "done"
    crun,               \* 1 or 2
    listed,             \* the lastModifiedDateTime of the file_info yielded, 0 for none
    marker_point,       \* the state of the file that the link of the marker stands for
    cursor_point,       \* the same for the persisted cursor
    cstored,            \* source-modified-time of the file's object, 0 for none
    \* ---- a job (JobSpec): run_backup_job ----
    jpc,                \* position within run_backup_job and its callees
    job_status,         \* results['status'] of run_backup_job
    job_dry_run,        \* job_config.dry_run
    source_idx,         \* the source of job_config.sources being processed
    ntargets,           \* the users or drives of the source left by the allow-list
    target_idx,         \* the target being processed
    src_uploaded,       \* results['files_uploaded'] of the source
    src_errors,         \* strings in results['errors'] of the source
    job_uploaded,       \* results['files_uploaded'] of the job
    job_errors,         \* strings in results['errors'] of the job
    checkpoints,        \* the sources whose {source}_last_backup.json was written
    \* ---- history of the job (not program state) ----
    called,             \* the sources _process_source was called for
    aborted,            \* the sources a target of which aborted
    writes,             \* the metadata objects put by the job, in the order of the puts
    \* ---- the load of the cursor of a target (LoadSpec): _get_delta_token ----
    cursor_file,        \* the object {source}_delta_tokens/{target}.json of the destination
    lpc,                \* "idle", "start", then "loaded" or "raised"
    delta_info,         \* what _get_delta_token returned
    \* ---- the file tracker (TrackerSpec): sync/file_tracker.py ----
    file_states,        \* FileTracker._file_states: the FileInfo recorded for each tracked path
    tcall,              \* the last call made on the tracker, with its arguments and its answer
    \* ---- the time stored with a cursor (StampSpec): _save_delta_token ----
    now,                \* the clock, read by datetime.utcnow()
    file_mtime,         \* lastModifiedDateTime of one file of the target, 0 before the window
    link_issued,        \* when the server issued the delta_link of the last page, 0 for none
    saved_time,         \* last_backup_time of the cursor file, 0 for none
    spc,                \* position: "idle", "paging", "marker", "saved", "fellback"
    fb_listed,          \* the fallback walk of the next run yielded the file
    \* ---- the path and the key of one file (PathSpec) ----
    resource_type,      \* "users" for a personal drive, "drives" for a team drive
    path_prefix,        \* user_prefix of the user, or the name of the team drive
    kitem,              \* the item of the drive the paths are built for
    delta_path,         \* 'path' of the file_info the delta route hands to the producer, <<>> for none
    fallback_path,      \* the same for the timestamp fallback
    dest_prefix,        \* destination_config.prefix
    key_path,           \* file_path of the file_info a worker dequeued
    head_key,           \* s3_key of _check_s3_file_exists
    put_key,            \* s3_key of _stream_to_aws_s3
    kpc,                \* position: "idle", "start", "fallback", "queued", "checked", "done"
    \* ---- the 429 retry loop of a delta page request (lines 1036-1056) ----
    page_no,            \* the delta page being requested
    bpc,                \* position of the page loop: "idle", "get", "retry", "status", "stopped", "done"
    page_status,        \* status_code of the last response
    page_retry_after,   \* Retry-After header of the last response
    page_delay,         \* local retry_delay of the retry loop
    page_retry,         \* loop variable retry of the retry loop
    page_slept,         \* argument of the last time.sleep, 0 before the first
    \* ---- the recursive fallback walk, call by call (lines 1229-1310) ----
    stack,              \* the calls of the recursive generator in progress, innermost last
    listed_folders      \* the folders whose children have been requested

pvars == <<run, dry_run, cursor, dest, ppc, emitted, final_delta_token, sent,
           file_queue, wpc, wfile, wout, whead, wtmp, files_processed,
           files_uploaded, files_skipped, bytes_transferred, errors,
           taken, handled, destAfter1, emittedFirst>>

\* Groups of variables, for the UNCHANGED clauses.
prod == <<ppc, emitted, final_delta_token, sent>>
wkr == <<wpc, wfile, wout, whead, wtmp>>
stats == <<files_processed, files_uploaded, files_skipped, bytes_transferred, errors>>
hist == <<taken, handled>>
first == <<destAfter1, emittedFirst>>
walk == <<wkpc, delta_token, fallback_timestamp, endpoint, page, response, retry,
          yielded, markers, route, rootRequests, sawDeltaLink, throttled, forced>>
\* The history of the requests of the walker.
asked == <<throttled, forced>>
tree == <<lastModified, last_backup_time, filter_supported, fpc, found>>
\* What the steps of the pipeline leave alone, beside the variables they name.
auth == <<access_token, token_expired, issued, apc, force_refresh, returned>>
\* The parts of the model added for one operation each.
dl == <<needs_auth, dpc, attempt, dstatus, retry_delay, slept, puts, dresult,
        dthrottled, dforced, dfile, buffered, put_meta>>
rate == <<throttle, clock, rpc, answered, rdelay, rretry, alive, rsent, rprocessed>>
conv == <<srcVersion, cpath, cpc, crun, listed, marker_point, cursor_point, cstored>>
job == <<jpc, job_status, job_dry_run, source_idx, ntargets, target_idx, src_uploaded,
         src_errors, job_uploaded, job_errors, checkpoints, called, aborted, writes>>
load == <<cursor_file, lpc, delta_info>>
trk == <<file_states, tcall>>
stamp == <<now, file_mtime, link_issued, saved_time, spc, fb_listed>>
keys == <<resource_type, path_prefix, kitem, delta_path, fallback_path, dest_prefix, key_path, head_key, put_key, kpc>>
back == <<page_no, bpc, page_status, page_retry_after, page_delay, page_retry, page_slept>>
rec == <<stack, listed_folders>>
others == <<auth, dl, rate, conv, job, load, trk, stamp, keys, back, rec>>
\* What the steps of one of these parts leave alone.
noauth == <<pvars, walk, tree, stop_event, dl, rate, conv, job, load, trk, stamp, keys, back, rec>>
nodl == <<pvars, walk, tree, stop_event, auth, rate, conv, job, load, trk, stamp, keys, back, rec>>
norate == <<pvars, walk, tree, stop_event, auth, dl, conv, job, load, trk, stamp, keys, back, rec>>
noconv == <<pvars, walk, tree, stop_event, auth, dl, rate, job, load, trk, stamp, keys, back, rec>>
nojob == <<pvars, walk, tree, stop_event, auth, dl, rate, conv, load, trk, stamp, keys, back, rec>>
noload == <<pvars, walk, tree, stop_event, auth, dl, rate, conv, job, trk, stamp, keys, back, rec>>
notrk == <<pvars, walk, tree, stop_event, auth, dl, rate, conv, job, load, stamp, keys, back, rec>>
nostamp == <<pvars, walk, tree, stop_event, auth, dl, rate, conv, job, load, trk, keys, back, rec>>
nokeys == <<pvars, walk, tree, stop_event, auth, dl, rate, conv, job, load, trk, stamp, back, rec>>
noback == <<pvars, walk, tree, stop_event, auth, dl, rate, conv, job, load, trk, stamp, keys, rec>>
norec == <<pvars, walk, tree, stop_event, auth, dl, rate, conv, job, load, trk, stamp, keys, back>>
outside == <<walk, tree, stop_event, others>>
\* What the steps of the walker leave alone beside the pipeline's and their own
\* variables, and the same for the steps of the timestamp fallback.
nowalk == <<tree, stop_event, others, asked>>
notree == <<walk, stop_event, others>>

vars == <<pvars, walk, tree, stop_event, others>>

(***************************************************************************)
(* FileQueueManager                                                        *)
(***************************************************************************)
\* FileQueueManager.__init__: an empty queue and zeroed statistics.
QueueInit ==
    /\ file_queue = <<>>
    /\ files_processed = 0
    /\ files_uploaded = 0
    /\ files_skipped = 0
    /\ bytes_transferred = 0
    /\ errors = 0

\* A queue.Queue whose put returns at once whatever the queue holds (maxsize=0).
PutNeverBlocks == TRUE

\* queue.Queue.put(block=True, timeout=None) can return only when a slot is free.
CanPut == Len(file_queue) < QueueCap

\* The worker threads of a fresh ThreadPoolExecutor, each at the top of its loop.
WorkersInit ==
    /\ wpc = [w \in Workers |-> "get"]
    /\ wfile = [w \in Workers |-> SENTINEL]
    /\ wout = [w \in Workers |-> "none"]
    /\ whead = [w \in Workers |-> "none"]
    /\ wtmp = [w \in Workers |-> 0]

\* The destinations a run can start from: the first `cur` files are stored with
\* their current modified time, the next ones up to `old` with an earlier one,
\* the rest have no object.
InitialDest ==
    { [f \in Files |-> IF f <= cur THEN SrcMtime(f)
                       ELSE IF f <= old THEN OldMtime ELSE Absent] :
      cur \in 0..MaxFiles, old \in 0..MaxFiles }

\* No walk in progress: the walker of Spec is the abstract generator of the
\* producer's steps.
WalkIdle ==
    /\ wkpc = "Done"
    /\ delta_token = NoToken
    /\ fallback_timestamp = FALSE
    /\ endpoint = "root"
    /\ page = 0
    /\ response = NoResponse
    /\ retry = 0
    /\ yielded = {}
    /\ markers = <<>>
    /\ route = "delta"
    /\ rootRequests = 0
    /\ sawDeltaLink = FALSE
    /\ throttled = 0
    /\ forced = 0

\* _process_items_with_delta at line 697 for one target: the queue manager is
\* new, the workers are submitted, the producer is about to iterate the walker.
PipelineInit ==
    /\ run = 1
    /\ ppc = "stream"
    /\ emitted = 0
    /\ final_delta_token = NoToken
    /\ sent = 0
    /\ QueueInit
    /\ WorkersInit
    /\ taken = [f \in Files |-> 0]
    /\ handled = {}
    /\ destAfter1 = dest
    /\ emittedFirst = MaxFiles

\* No fallback walk in progress, no cancellation.
TreeIdle ==
    /\ stop_event = FALSE
    /\ lastModified = [i \in Items |-> OldMtime]
    /\ last_backup_time = OldMtime
    /\ filter_supported = FALSE
    /\ fpc = "idle"
    /\ found = {}

\* Callers of the token source: the producer thread (0), whose walker asks for a
\* token before every page request, and the workers, who ask before every download.
Callers == 0..NWorkers

\* A token source that holds a valid token and that nobody calls.
AuthIdle ==
    /\ access_token = 1
    /\ token_expired = FALSE
    /\ issued = 1
    /\ apc = [c \in Callers |-> "idle"]
    /\ force_refresh = [c \in Callers |-> FALSE]
    /\ returned = [c \in Callers |-> 0]

\* No download in progress.
DownloadIdle ==
    /\ dfile = [path |-> <<>>, modified_time |-> 0, size |-> 0]
    /\ buffered = 0
    /\ put_meta = <<>>
    /\ needs_auth = FALSE
    /\ dpc = "idle"
    /\ attempt = 0
    /\ dstatus = 0
    /\ retry_delay = 1
    /\ slept = 0
    /\ puts = 0
    /\ dresult = "none"
    /\ dthrottled = 0
    /\ dforced = 0

\* No walk against the clock.
RateIdle ==
    /\ throttle = 0
    /\ clock = 0
    /\ rpc = "idle"
    /\ answered = 0
    /\ rdelay = 1
    /\ rretry = 0
    /\ alive = FALSE
    /\ rsent = 0
    /\ rprocessed = 0

\* No file under observation.
ConvergeIdle ==
    /\ srcVersion = 1
    /\ cpath = "delta"
    /\ cpc = "idle"
    /\ crun = 1
    /\ listed = 0
    /\ marker_point = 0
    /\ cursor_point = 0
    /\ cstored = 0

\* No job running.
JobIdle ==
    /\ jpc = "idle"
    /\ job_status = "started"
    /\ job_dry_run = FALSE
    /\ source_idx = 0
    /\ ntargets = 0
    /\ target_idx = 0
    /\ src_uploaded = 0
    /\ src_errors = 0
    /\ job_uploaded = 0
    /\ job_errors = 0
    /\ checkpoints = {}
    /\ called = {}
    /\ aborted = {}
    /\ writes = <<>>

\* No cursor is being loaded.
LoadIdle ==
    /\ cursor_file = [state |-> "missing", delta_token |-> NoToken, last_backup_time |-> FALSE]
    /\ lpc = "idle"
    /\ delta_info = [raised |-> FALSE, delta_token |-> NoToken, last_backup_time |-> FALSE]

\* No call has been made on the tracker.
TrackerIdle ==
    /\ file_states = <<>>
    /\ tcall = [op |-> "none", file_path |-> "none", size |-> 0,
                modified_time |-> [kind |-> "none", value |-> <<0, 0>>, text |-> <<>>],
                hash_md5 |-> 0, result |-> FALSE]

\* No cursor is being stamped.
StampIdle ==
    /\ now = 0
    /\ file_mtime = 0
    /\ link_issued = 0
    /\ saved_time = 0
    /\ spc = "idle"
    /\ fb_listed = FALSE

\* No path is being built.
KeysIdle ==
    /\ resource_type = "users"
    /\ path_prefix = <<>>
    /\ kitem = "f0"
    /\ delta_path = <<>>
    /\ fallback_path = <<>>
    /\ dest_prefix = <<>>
    /\ key_path = <<>>
    /\ head_key = <<>>
    /\ put_key = <<>>
    /\ kpc = "idle"

\* No delta page is being requested.
BackoffIdle ==
    /\ page_no = 0
    /\ bpc = "idle"
    /\ page_status = 0
    /\ page_retry_after = 0
    /\ page_delay = 0
    /\ page_retry = 0
    /\ page_slept = 0

\* No recursive call is in progress.
DescendIdle ==
    /\ stack = <<>>
    /\ listed_folders = {}

\* The parts of the model added for one operation each are at rest.
OthersIdle == AuthIdle /\ DownloadIdle /\ RateIdle /\ ConvergeIdle /\ JobIdle /\ LoadIdle /\ TrackerIdle /\ StampIdle /\ KeysIdle /\ BackoffIdle /\ DescendIdle

\* A target whose pipeline is not looked at: a constant state of its variables.
PipelineIdle ==
    /\ dry_run = FALSE
    /\ cursor = PriorToken
    /\ dest = [f \in Files |-> Absent]
    /\ PipelineInit

Init ==
    /\ WalkIdle
    /\ TreeIdle
    /\ OthersIdle
    /\ dry_run \in BOOLEAN
    /\ cursor = PriorToken
    /\ dest \in InitialDest
    /\ PipelineInit

(***************************************************************************)
(* Producer: _process_items_with_delta, lines 697-722                      *)
(***************************************************************************)
\* The walker yields the next file: the producer is about to call add_file.
\* The source does not change between the runs: the walk of the second run can
\* yield again only files the first walk yielded (it starts from a cursor that
\* was not advanced, restarts at the root /delta after a 410, or is handed
\* items again by the service).
WalkerYieldsFile ==
    /\ ppc = "stream"
    /\ emitted < (IF run = 1 THEN MaxFiles ELSE emittedFirst)
    /\ emitted' = emitted + 1
    /\ ppc' = "add"
    /\ UNCHANGED <<run, dry_run, cursor, dest, final_delta_token, sent, file_queue,
                   wkr, stats, hist, first, outside>>

\* add_file(file_info) with timeout=None: blocks while the queue is full.
AddFile ==
    /\ ppc = "add"
    /\ CanPut
    /\ file_queue' = Append(file_queue, emitted)
    /\ ppc' = "stream"
    /\ UNCHANGED <<run, dry_run, cursor, dest, emitted, final_delta_token, sent,
                   wkr, stats, hist, first, outside>>

\* The walker yields {'_delta_token': delta_link} and ends: the marker is captured
\* in final_delta_token and is not enqueued.
WalkerYieldsMarker ==
    /\ ppc = "stream"
    /\ final_delta_token' = NewToken(run)
    /\ ppc' = "save"
    /\ UNCHANGED <<run, dry_run, cursor, dest, emitted, sent, file_queue,
                   wkr, stats, hist, first, outside>>

\* The walker ends without a marker (a failed page request, an exception).
WalkerStops ==
    /\ ppc = "stream"
    /\ ppc' = "save"
    /\ UNCHANGED <<run, dry_run, cursor, dest, emitted, final_delta_token, sent,
                   file_queue, wkr, stats, hist, first, outside>>

\* "if final_delta_token and not dry_run": whether _save_delta_token is called.
ShouldSaveTokenUnlessDryRun == ~dry_run
ShouldSaveToken == final_delta_token # NoToken /\ ~dry_run

\* Lines 707-710, right after the generator is exhausted: _save_delta_token puts
\* the cursor JSON; a failing put is logged and swallowed.
SaveToken ==
    /\ ppc = "save"
    /\ ppc' = "signal"
    /\ \E put_ok \in BOOLEAN :
         cursor' = IF ShouldSaveToken /\ put_ok THEN final_delta_token ELSE cursor
    /\ UNCHANGED <<run, dry_run, dest, emitted, final_delta_token, sent, file_queue,
                   wkr, stats, hist, first, outside>>

\* signal_done: one blocking put of _SENTINEL per worker.
SignalDone ==
    /\ ppc = "signal"
    /\ CanPut
    /\ file_queue' = Append(file_queue, SENTINEL)
    /\ sent' = sent + 1
    /\ ppc' = IF sent + 1 = NWorkers THEN "join" ELSE "signal"
    /\ UNCHANGED <<run, dry_run, cursor, dest, emitted, final_delta_token,
                   wkr, stats, hist, first, outside>>

AllWorkersExited == \A w \in Workers : wpc[w] = "exit"

\* as_completed(worker_futures) and the executor's shutdown return once every
\* worker has returned; the statistics are then aggregated.
Join ==
    /\ ppc = "join"
    /\ AllWorkersExited
    /\ ppc' = "done"
    /\ destAfter1' = IF run = 1 THEN dest ELSE destAfter1
    /\ emittedFirst' = IF run = 1 THEN emitted ELSE emittedFirst
    /\ UNCHANGED <<run, dry_run, cursor, dest, emitted, final_delta_token, sent,
                   file_queue, wkr, stats, hist, outside>>

\* The program is run again on the same target: a new FileQueueManager, new
\* worker threads, the destination and the persisted cursor as the first run
\* left them.
StartSecondRun ==
    /\ ppc = "done"
    /\ run = 1
    /\ run' = 2
    /\ ppc' = "stream"
    /\ emitted' = 0
    /\ final_delta_token' = NoToken
    /\ sent' = 0
    /\ file_queue' = <<>>
    /\ files_processed' = 0
    /\ files_uploaded' = 0
    /\ files_skipped' = 0
    /\ bytes_transferred' = 0
    /\ errors' = 0
    /\ wpc' = [w \in Workers |-> "get"]
    /\ wfile' = [w \in Workers |-> SENTINEL]
    /\ wout' = [w \in Workers |-> "none"]
    /\ whead' = [w \in Workers |-> "none"]
    /\ wtmp' = [w \in Workers |-> 0]
    /\ taken' = [f \in Files |-> 0]
    /\ handled' = {}
    /\ UNCHANGED <<dry_run, cursor, dest, first, outside>>

Producer ==
    \/ WalkerYieldsFile
    \/ AddFile
    \/ WalkerYieldsMarker
    \/ WalkerStops
    \/ SaveToken
    \/ SignalDone
    \/ Join

(***************************************************************************)
(* Worker: _parallel_upload_worker                                         *)
(***************************************************************************)
\* get_next_file(timeout=40.0) with an entry in the queue: queue.Queue.get hands
\* the head entry to exactly one caller.  A sentinel makes the worker leave its
\* loop; a file is kept in file_info.
GetNextFile(w) ==
    /\ wpc[w] = "get"
    /\ file_queue # <<>>
    /\ file_queue' = Tail(file_queue)
    /\ IF Head(file_queue) = SENTINEL
       THEN /\ wpc' = [wpc EXCEPT ![w] = "exit"]
            /\ UNCHANGED <<wfile, taken>>
       ELSE /\ wpc' = [wpc EXCEPT ![w] = "check"]
            /\ wfile' = [wfile EXCEPT ![w] = Head(file_queue)]
            /\ taken' = [taken EXCEPT ![Head(file_queue)] = @ + 1]
    /\ UNCHANGED <<run, dry_run, cursor, dest, prod, wout, whead, wtmp, stats,
                   handled, first, outside>>

\* What a worker does when get_next_file returned None: lines 577-579, "break".
OnTimeout == "exit"

\* get_next_file(timeout=40.0) with the queue empty for 40 seconds: queue.Empty,
\* None is returned.
GetTimeout(w) ==
    /\ wpc[w] = "get"
    /\ file_queue = <<>>
    /\ wpc' = [wpc EXCEPT ![w] = OnTimeout]
    /\ UNCHANGED <<run, dry_run, cursor, dest, prod, file_queue, wfile, wout, whead,
                   wtmp, stats, hist, first, outside>>

\* _check_s3_file_exists with "!=" in place of "==" in the comparison of the
\* stored metadata with the incoming time.
S3FileExistsNegated(head, stored, modified_time) ==
    head = "ok" /\ stored # Absent /\ stored # modified_time

\* _check_s3_file_exists: True only when head_object answered and the object's
\* source-modified-time metadata equals the incoming lastModifiedDateTime; a 404
\* (no object) and every other error give False.
S3FileExists(head, stored, modified_time) ==
    head = "ok" /\ stored # Absent /\ stored = modified_time

\* Lines 383-406 and 586-610: what the last head_object gave, and the decisions
\* that need no further request.  head: "ok" when head_object answered (an
\* object, or a 404), "err" on any other error.  url: whether file_info carries
\* a download URL.
Decide(w, head, url) ==
    /\ whead' = [whead EXCEPT ![w] = head]
    /\ IF S3FileExists(head, dest[wfile[w]], SrcMtime(wfile[w]))
       THEN /\ wout' = [wout EXCEPT ![w] = "skipped"]
            /\ wpc' = [wpc EXCEPT ![w] = "stat_p_load"]
       ELSE IF dry_run
       THEN /\ wout' = [wout EXCEPT ![w] = "uploaded"]
            /\ wpc' = [wpc EXCEPT ![w] = "stat_p_load"]
       ELSE IF ~url
       THEN /\ wout' = [wout EXCEPT ![w] = "error"]
            /\ wpc' = [wpc EXCEPT ![w] = "stat_p_load"]
       ELSE /\ wout' = [wout EXCEPT ![w] = "none"]
            /\ wpc' = [wpc EXCEPT ![w] = "upload"]

\* Lines 586-610 with 367-406: the head-check of the file, one head_object
\* request.  A request refused with the code 401 or ExpiredToken reaches
\* self.aws_auth.refresh_credentials() (line 375), a method AWSAuth does not
\* have (auth/cloud_auth.py 12-90): the AttributeError is caught at line 404
\* and the check returns False without a second request, which is the outcome
\* "err" of the one request.
CheckFile(w) ==
    /\ wpc[w] = "check"
    /\ \E head \in {"ok", "err"}, url \in BOOLEAN : Decide(w, head, url)
    /\ UNCHANGED <<run, dry_run, cursor, dest, prod, file_queue, wfile, wtmp, stats,
                   hist, first, outside>>

\* _stream_upload_file / _stream_to_aws_s3: the download, then upload_fileobj with
\* the file's lastModifiedDateTime as source-modified-time.  ok = FALSE: the
\* download or the put failed ('success': False).
StreamUploadFile(w) ==
    /\ wpc[w] = "upload"
    /\ \E ok \in BOOLEAN :
         IF ok
         THEN /\ dest' = [dest EXCEPT ![wfile[w]] = SrcMtime(wfile[w])]
              /\ wout' = [wout EXCEPT ![w] = "uploaded"]
         ELSE /\ wout' = [wout EXCEPT ![w] = "error"]
                        /\ UNCHANGED dest
    /\ wpc' = [wpc EXCEPT ![w] = "stat_p_load"]
    /\ UNCHANGED <<run, dry_run, cursor, prod, file_queue, wfile, whead, wtmp, stats,
                   taken, handled, first, outside>>

\* A worker that goes through the body of its loop again with the file it holds.
BackToCheck(w) ==
    /\ wpc' = [wpc EXCEPT ![w] = "check"]
    /\ wout' = [wout EXCEPT ![w] = "none"]
    /\ whead' = [whead EXCEPT ![w] = "none"]
    /\ wtmp' = [wtmp EXCEPT ![w] = 0]
    /\ wfile' = wfile

\* "continue" / the end of the loop body: the worker is back at the top of its
\* loop and its locals of the finished iteration are dead.
BackToLoop(w) ==
    /\ wpc' = [wpc EXCEPT ![w] = "get"]
    /\ wfile' = [wfile EXCEPT ![w] = SENTINEL]
    /\ wout' = [wout EXCEPT ![w] = "none"]
    /\ whead' = [whead EXCEPT ![w] = "none"]
    /\ wtmp' = [wtmp EXCEPT ![w] = 0]

\* A worker that leaves its loop after a file that ended in an error.
AfterErrorBreak(w) ==
    /\ wpc' = [wpc EXCEPT ![w] = "exit"]
    /\ wfile' = [wfile EXCEPT ![w] = SENTINEL]
    /\ wout' = [wout EXCEPT ![w] = "none"]
    /\ whead' = [whead EXCEPT ![w] = "none"]
    /\ wtmp' = [wtmp EXCEPT ![w] = 0]

\* Lines 606-610 and 619-627: after update_stats(error=...) the iteration ends,
\* by "continue" or by the end of the try statement inside the loop.
AfterError(w) == BackToLoop(w)

\* update_stats runs without results_lock ("# with self.results_lock:"), so each
\* "self.x += 1" is a load of the attribute followed by a store.
\* self.files_processed += 1: the load.
StatProcessedLoad(w) ==
    /\ wpc[w] = "stat_p_load"
    /\ wtmp' = [wtmp EXCEPT ![w] = files_processed]
    /\ wpc' = [wpc EXCEPT ![w] = "stat_p_store"]
    /\ UNCHANGED <<run, dry_run, cursor, dest, prod, file_queue, wfile, wout, whead,
                   stats, hist, first, outside>>

\* self.files_processed += 1: the store.
StatProcessedStore(w) ==
    /\ wpc[w] = "stat_p_store"
    /\ files_processed' = wtmp[w] + 1
    /\ wpc' = [wpc EXCEPT ![w] = "stat_o_load"]
    /\ UNCHANGED <<run, dry_run, cursor, dest, prod, file_queue, wfile, wout, whead,
                   wtmp, files_uploaded, files_skipped, bytes_transferred, errors,
                   hist, first, outside>>

\* The second part of update_stats: the load of files_uploaded or files_skipped,
\* or, for an error, errors.append(error) (one atomic list operation), after
\* which the worker is back at the top of its loop.
StatOutcomeLoad(w) ==
    /\ wpc[w] = "stat_o_load"
    /\ IF wout[w] = "error"
       THEN /\ errors' = errors + 1
            /\ handled' = handled \cup {wfile[w]}
            /\ AfterError(w)
       ELSE /\ wtmp' = [wtmp EXCEPT ![w] =
                          IF wout[w] = "uploaded" THEN files_uploaded ELSE files_skipped]
            /\ wpc' = [wpc EXCEPT ![w] = "stat_o_store"]
            /\ UNCHANGED <<errors, handled, wfile, wout, whead>>
    /\ UNCHANGED <<run, dry_run, cursor, dest, prod, file_queue,
                   files_processed, files_uploaded, files_skipped, bytes_transferred,
                   taken, first, outside>>

\* The store of files_uploaded (with bytes_transferred += size, every file of
\* the model having size 1) or of files_skipped; the worker is back at the top
\* of its loop.
StatOutcomeStore(w) ==
    /\ wpc[w] = "stat_o_store"
    /\ IF wout[w] = "uploaded"
       THEN /\ files_uploaded' = wtmp[w] + 1
            /\ bytes_transferred' = bytes_transferred + 1
            /\ UNCHANGED files_skipped
       ELSE /\ files_skipped' = wtmp[w] + 1
            /\ UNCHANGED <<files_uploaded, bytes_transferred>>
    /\ handled' = handled \cup {wfile[w]}
    /\ BackToLoop(w)
    /\ UNCHANGED <<run, dry_run, cursor, dest, prod, file_queue,
                   files_processed, errors, taken, first, outside>>

Worker(w) ==
    \/ GetNextFile(w)
    \/ GetTimeout(w)
    \/ CheckFile(w)
    \/ StreamUploadFile(w)
    \/ StatProcessedLoad(w)
    \/ StatProcessedStore(w)
    \/ StatOutcomeLoad(w)
    \/ StatOutcomeStore(w)

Next ==
    \/ Producer
    \/ \E w \in Workers : Worker(w)

Spec == Init /\ [][Next]_vars

(***************************************************************************)
(* Two runs in an environment where no request fails.                      *)
(***************************************************************************)
\* A step in which the environment fails a request of the program: the walker
\* stops without its marker, the put of the cursor fails, head_object ends in an
\* error other than 404, a file comes without a download URL, or the download or
\* put of a file body fails.
FaultStep ==
    \/ ppc = "stream" /\ ppc' = "save" /\ final_delta_token' = NoToken
    \/ ppc = "save" /\ ShouldSaveToken /\ cursor' # final_delta_token
    \/ \E w \in Workers : wpc[w] = "check"
                           /\ (whead'[w] = "err" \/ wout'[w] = "error")
    \/ \E w \in Workers : wpc[w] = "upload" /\ wout'[w] = "error"

RerunNext ==
    \/ WalkerYieldsFile /\ ~FaultStep
    \/ AddFile /\ ~FaultStep
    \/ WalkerYieldsMarker /\ ~FaultStep
    \/ SaveToken /\ ~FaultStep
    \/ SignalDone /\ ~FaultStep
    \/ Join /\ ~FaultStep
    \/ StartSecondRun /\ ~FaultStep
    \/ \E w \in Workers : Worker(w) /\ ~FaultStep

RerunSpec == Init /\ [][RerunNext]_vars

(***************************************************************************)
(* A run in which requests may fail, followed by a run in which none does, *)
(* against a source that does not change.  The walk of the second run      *)
(* starts from the persisted cursor (lines 1025-1029): the server reports  *)
(* the changes since the link it is asked with, which are the files of the *)
(* first window for the prior cursor and none for the link the first run   *)
(* saved.  No worker waits for the whole dequeue timeout.                  *)
(***************************************************************************)
\* The files the delta query of the second run reports.
ChangedSince(token) == IF token = PriorToken THEN MaxFiles ELSE 0

DeltaYieldsFile ==
    /\ run = 2
    /\ ppc = "stream"
    /\ emitted < ChangedSince(cursor)
    /\ emitted' = emitted + 1
    /\ ppc' = "add"
    /\ UNCHANGED <<run, dry_run, cursor, dest, final_delta_token, sent, file_queue,
                   wkr, stats, hist, first, outside>>

DeltaYieldsMarker ==
    /\ run = 2
    /\ emitted = ChangedSince(cursor)
    /\ WalkerYieldsMarker

RepeatInit ==
    /\ WalkIdle
    /\ TreeIdle
    /\ OthersIdle
    /\ dry_run = FALSE
    /\ cursor = PriorToken
    /\ dest \in {[f \in Files |-> Absent], [f \in Files |-> OldMtime]}
    /\ PipelineInit

RepeatNext ==
    \/ run = 1 /\ WalkerYieldsFile
    \/ run = 1 /\ WalkerYieldsMarker
    \/ run = 1 /\ WalkerStops
    \/ DeltaYieldsFile
    \/ DeltaYieldsMarker
    \/ AddFile
    \/ SaveToken /\ (run = 2 => ~FaultStep)
    \/ SignalDone
    \/ Join
    \/ StartSecondRun
    \/ \E w \in Workers : GetNextFile(w)
    \/ \E w \in Workers : CheckFile(w) /\ (run = 2 => ~FaultStep)
    \/ \E w \in Workers : StreamUploadFile(w) /\ (run = 2 => ~FaultStep)
    \/ \E w \in Workers : StatProcessedLoad(w)
    \/ \E w \in Workers : StatProcessedStore(w)
    \/ \E w \in Workers : StatOutcomeLoad(w)
    \/ \E w \in Workers : StatOutcomeStore(w)

RepeatSpec == RepeatInit /\ [][RepeatNext]_vars

(***************************************************************************)
(* Cancellation: FileQueueManager.stop and should_stop, lines 132-138.     *)
(* Nothing in the program calls stop(); CancelSpec lets a caller set the   *)
(* event at any moment of a run.                                           *)
(***************************************************************************)
\* stop(): self.stop_event.set()
Stop ==
    /\ ~stop_event
    /\ ppc # "done"
    /\ stop_event' = TRUE
    /\ UNCHANGED <<pvars, walk, tree, others>>

\* "while not queue_manager.should_stop()", line 574: a worker at the top of
\* its loop finds the event set and returns.
StopSeen(w) ==
    /\ wpc[w] = "get"
    /\ stop_event
    /\ wpc' = [wpc EXCEPT ![w] = "exit"]
    /\ UNCHANGED <<run, dry_run, cursor, dest, prod, file_queue, wfile, wout, whead,
                   wtmp, stats, hist, first, outside>>

\* One run of a real sync of a target with nothing stored yet.
CancelInit ==
    /\ WalkIdle
    /\ TreeIdle
    /\ OthersIdle
    /\ dry_run = FALSE
    /\ cursor = PriorToken
    /\ dest = [f \in Files |-> Absent]
    /\ PipelineInit

\* The producer never reads the event; a worker reads it at the top of its
\* loop, before it calls get_next_file.
CancelNext ==
    \/ Producer
    \/ \E w \in Workers : Worker(w) /\ (wpc[w] = "get" => ~stop_event)
    \/ \E w \in Workers : StopSeen(w)
    \/ Stop

CancelSpec == CancelInit /\ [][CancelNext]_vars

(***************************************************************************)
(* Delta walker: _stream_delta_files, lines 1023-1202                      *)
(***************************************************************************)
\* The most pages one paging of the delta feed has (the paging is finite).
MaxPages == 2
\* The history counter rootRequests stops counting at CountCap.
CountCap == 3
\* max_retries = 5
MaxRetries == 5

\* The @odata.nextLink of page p of a paging.
NextLink(p) == 10 + p

\* The delta links a terminal page can carry.
DeltaLinks == {NewToken(r) : r \in 1..2}

\* What the server can answer to a request of the walk, `received` pages into
\* the paging.  status 0 stands for no response at all: requests.get, the token
\* source or response.json() raised.  A page carries @odata.nextLink (only while
\* the paging has pages left), @odata.deltaLink, or neither.
Answers(received) ==
    {[status |-> s, link |-> "none", token |-> NoToken] : s \in {0, 401, 410, 429, 500}}
    \cup {[status |-> 200, link |-> "none", token |-> NoToken]}
    \cup {[status |-> 200, link |-> "delta", token |-> t] : t \in DeltaLinks}
    \cup (IF received + 1 < MaxPages
          THEN {[status |-> 200, link |-> "next", token |-> NextLink(received + 1)]}
          ELSE {})

\* data['value'] of page p: a file, a deleted file, a folder and a package.
PageItems(p) ==
    { [id |-> p, file |-> TRUE, folder |-> FALSE, deleted |-> FALSE],
      [id |-> p + MaxPages, file |-> TRUE, folder |-> FALSE, deleted |-> TRUE],
      [id |-> p + 2 * MaxPages, file |-> FALSE, folder |-> TRUE, deleted |-> FALSE],
      [id |-> p + 3 * MaxPages, file |-> FALSE, folder |-> FALSE, deleted |-> FALSE] }

\* Lines 1122-1180: the items of a page of the main loop that are yielded.
PageYields(p) ==
    {<<"delta", i.id>> : i \in {j \in PageItems(p) : ~j.deleted /\ ~j.folder /\ j.file}}

\* Lines 1089-1100 read only the links of a page of the fresh delta.
FreshPageYieldsItems(p) == {<<"fresh", i.id>> : i \in PageItems(p)}
FreshPageYields(p) == {}

\* Lines 1186-1199: whether the main loop yields a marker for the page.
PageMarker(r) == r.link = "delta"

CountUp(n) == IF n < CountCap THEN n + 1 ELSE n

\* The generator is exhausted: the producer leaves its for loop (line 707).
Finish == wkpc' = "Done" /\ ppc' = "save"

\* yield {'_delta_token': t}, captured by the producer at lines 700-702.
YieldMarker(t) == markers' = Append(markers, t) /\ final_delta_token' = t

\* Line 1196: the break after the marker of the main loop ends the generator.
AfterDeltaLinkContinue == wkpc' = "get" /\ ppc' = ppc
AfterDeltaLink == Finish

\* Line 1110: endpoint = the root /delta URL; continue.
Restart == endpoint' = "root" /\ page' = 0 /\ wkpc' = "get" /\ route' = "restart"

\* Lines 1036-1041: the request of one iteration of the main loop.
Get ==
    /\ wkpc = "get"
    /\ \E r \in Answers(page) :
         /\ response' = r
         /\ sawDeltaLink' = (sawDeltaLink \/ r.link = "delta")
         /\ IF r.status = 0
            THEN Finish
            ELSE /\ wkpc' = CASE r.status = 429 -> "retry"
                              [] r.status = 401 -> "refresh"
                              [] OTHER -> "status"
                 /\ ppc' = ppc
    /\ throttled' = (IF response'.status = 429 THEN 1 ELSE 0)
    /\ forced' = 0
    /\ rootRequests' = IF endpoint = "root" THEN CountUp(rootRequests) ELSE rootRequests
    /\ UNCHANGED <<run, dry_run, cursor, dest, emitted, final_delta_token, sent,
                   file_queue, wkr, stats, hist, first, tree, stop_event, others,
                   delta_token, fallback_timestamp, endpoint, page, retry, yielded,
                   markers, route>>

\* Lines 1044-1056: one round of the retry loop after a 429.  The loop is left
\* on a 200 or after MaxRetries rounds, with whatever the last response was.
Retry429 ==
    /\ wkpc = "retry"
    /\ \E r \in Answers(page) :
         /\ response' = r
         /\ sawDeltaLink' = (sawDeltaLink \/ r.link = "delta")
         /\ IF r.status = 0
            THEN Finish /\ retry' = 0
            ELSE /\ ppc' = ppc
                 /\ IF r.status = 200 \/ retry + 1 = MaxRetries
                    THEN /\ retry' = 0
                         /\ wkpc' = IF r.status = 401 THEN "refresh" ELSE "status"
                    ELSE /\ retry' = retry + 1
                         /\ wkpc' = "retry"
    /\ throttled' = (IF response'.status = 429 THEN throttled + 1 ELSE 0)
    /\ forced' = forced
    /\ rootRequests' = IF endpoint = "root" THEN CountUp(rootRequests) ELSE rootRequests
    /\ UNCHANGED <<run, dry_run, cursor, dest, emitted, final_delta_token, sent,
                   file_queue, wkr, stats, hist, first, tree, stop_event, others,
                   delta_token, fallback_timestamp, endpoint, page, yielded,
                   markers, route>>

\* Lines 1058-1065: after a 401 the token is refreshed and the request is sent
\* once more.
Refresh401 ==
    /\ wkpc = "refresh"
    /\ \E r \in Answers(page) :
         /\ response' = r
         /\ sawDeltaLink' = (sawDeltaLink \/ r.link = "delta")
         /\ IF r.status = 0 THEN Finish ELSE wkpc' = "status" /\ ppc' = ppc
    /\ throttled' = (IF response'.status = 429 THEN throttled + 1 ELSE 0)
    /\ forced' = forced + 1
    /\ rootRequests' = IF endpoint = "root" THEN CountUp(rootRequests) ELSE rootRequests
    /\ UNCHANGED <<run, dry_run, cursor, dest, emitted, final_delta_token, sent,
                   file_queue, wkr, stats, hist, first, tree, stop_event, others,
                   delta_token, fallback_timestamp, endpoint, page, retry, yielded,
                   markers, route>>

\* Lines 1068-1112, status 410: with a fallback timestamp the fallback of lines
\* 1073-1102 is entered, without one the loop continues at the root /delta URL.
Expired410 ==
    /\ wkpc = "status"
    /\ response.status = 410
    /\ IF fallback_timestamp
       THEN /\ wkpc' = "fallback"
            /\ route' = CASE route = "delta" /\ endpoint = "cursor" -> "fallback"
                           [] route = "delta" /\ endpoint # "cursor" -> "late"
                           [] OTHER -> "restart"
            /\ UNCHANGED <<endpoint, page>>
       ELSE Restart
    /\ UNCHANGED <<pvars, nowalk, delta_token, fallback_timestamp, response, retry, yielded,
                   markers, rootRequests, sawDeltaLink>>

\* Lines 1114-1116: any other status than 200 ends the walk without a marker.
ErrorStatus ==
    /\ wkpc = "status"
    /\ response.status \notin {200, 410}
    /\ Finish
    /\ UNCHANGED <<run, dry_run, cursor, dest, emitted, final_delta_token, sent,
                   file_queue, wkr, stats, hist, first, nowalk,
                   delta_token, fallback_timestamp, endpoint, page, response, retry,
                   yielded, markers, route, rootRequests, sawDeltaLink>>

\* Lines 1118-1199: the files of the page are yielded; a next link is followed,
\* a delta link is yielded as the marker and ends the walk, a page with neither
\* ends the walk.
Page200 ==
    /\ wkpc = "status"
    /\ response.status = 200
    /\ page' = page + 1
    /\ yielded' = yielded \cup PageYields(page + 1)
    /\ IF response.link = "next"
       THEN /\ endpoint' = "next"
            /\ wkpc' = "get"
            /\ UNCHANGED <<ppc, markers, final_delta_token>>
       ELSE /\ endpoint' = endpoint
            /\ IF PageMarker(response)
               THEN YieldMarker(response.token) /\ AfterDeltaLink
               ELSE Finish /\ UNCHANGED <<markers, final_delta_token>>
    /\ UNCHANGED <<run, dry_run, cursor, dest, emitted, sent,
                   file_queue, wkr, stats, hist, first, nowalk,
                   delta_token, fallback_timestamp, response, retry,
                   route, rootRequests, sawDeltaLink>>

\* Lines 1074-1079: the timestamp is parsed and the files of fallback_func are
\* yielded.  An exception (also one raised after some files were yielded) is
\* caught at line 1104 and execution falls through to line 1110.
Fallback ==
    /\ wkpc = "fallback"
    /\ \E ok \in BOOLEAN, files \in SUBSET Files :
         /\ yielded' = yielded \cup {<<"fallback", f>> : f \in files}
         /\ IF ok
            THEN wkpc' = "fresh" /\ UNCHANGED <<endpoint, page, route>>
            ELSE Restart
    /\ UNCHANGED <<pvars, nowalk, delta_token, fallback_timestamp, response, retry,
                   markers, rootRequests, sawDeltaLink>>

\* Lines 1083-1087: the first request of the fresh delta.  A status other than
\* 200 leads to the return of line 1102, an exception to line 1110.
Fresh ==
    /\ wkpc = "fresh"
    /\ rootRequests' = CountUp(rootRequests)
    /\ \E r \in Answers(0) :
         /\ response' = r
         /\ sawDeltaLink' = (sawDeltaLink \/ r.link = "delta")
         /\ CASE r.status = 0 -> Restart /\ ppc' = ppc
              [] r.status = 200 ->
                   /\ wkpc' = "freshpage"
                   /\ page' = 1
                   /\ UNCHANGED <<endpoint, route, ppc>>
              [] OTHER -> Finish /\ UNCHANGED <<endpoint, page, route>>
    /\ UNCHANGED <<run, dry_run, cursor, dest, emitted, final_delta_token, sent,
                   file_queue, wkr, stats, hist, first, nowalk,
                   delta_token, fallback_timestamp, retry, yielded, markers>>

\* Lines 1093-1095 and 1102: the fresh page carries the delta link.
FreshDeltaLink ==
    /\ wkpc = "freshpage"
    /\ response.link = "delta"
    /\ yielded' = yielded \cup FreshPageYields(page)
    /\ YieldMarker(response.token)
    /\ Finish
    /\ UNCHANGED <<run, dry_run, cursor, dest, emitted, sent,
                   file_queue, wkr, stats, hist, first, nowalk,
                   delta_token, fallback_timestamp, endpoint, page, response, retry,
                   route, rootRequests, sawDeltaLink>>

\* Lines 1096-1098: the next link of the fresh page is requested and the body
\* of the response is taken as the next page whatever its status; an error
\* body carries no link.
FreshNextLink ==
    /\ wkpc = "freshpage"
    /\ response.link = "next"
    /\ yielded' = yielded \cup FreshPageYields(page)
    /\ \E r \in Answers(page) :
         /\ response' = r
         /\ sawDeltaLink' = (sawDeltaLink \/ r.link = "delta")
         /\ IF r.status = 0
            THEN Restart
            ELSE /\ page' = page + 1
                 /\ UNCHANGED <<wkpc, endpoint, route>>
    /\ UNCHANGED <<pvars, nowalk, delta_token, fallback_timestamp, retry, markers, rootRequests>>

\* Lines 1099-1102: a fresh page without a link ends the walk without a marker.
FreshNoLink ==
    /\ wkpc = "freshpage"
    /\ response.link = "none"
    /\ yielded' = yielded \cup FreshPageYields(page)
    /\ Finish
    /\ UNCHANGED <<run, dry_run, cursor, dest, emitted, final_delta_token, sent,
                   file_queue, wkr, stats, hist, first, nowalk,
                   delta_token, fallback_timestamp, endpoint, page, response, retry,
                   markers, route, rootRequests, sawDeltaLink>>

\* The process is killed while the walk or the save of the cursor is under way.
Crash ==
    /\ ppc \in {"stream", "save"}
    /\ ppc' = "killed"
    /\ wkpc' = "killed"
    /\ UNCHANGED <<run, dry_run, cursor, dest, emitted, final_delta_token, sent,
                   file_queue, wkr, stats, hist, first, nowalk,
                   delta_token, fallback_timestamp, endpoint, page, response, retry,
                   yielded, markers, route, rootRequests, sawDeltaLink>>

Walker ==
    \/ Get
    \/ Retry429
    \/ Refresh401
    \/ Expired410
    \/ ErrorStatus
    \/ Page200
    \/ Fallback
    \/ Fresh
    \/ FreshDeltaLink
    \/ FreshNextLink
    \/ FreshNoLink

\* _get_delta_token has loaded the cursor of the target (none on a first sync)
\* and its last_backup_time; lines 1025-1029 choose the first endpoint.
WalkInit ==
    /\ TreeIdle
    /\ OthersIdle
    /\ dry_run \in BOOLEAN
    /\ cursor \in {NoToken, PriorToken}
    /\ dest = [f \in Files |-> Absent]
    /\ PipelineInit
    /\ wkpc = "get"
    /\ delta_token = cursor
    /\ fallback_timestamp \in (IF delta_token = NoToken THEN {FALSE} ELSE BOOLEAN)
    /\ endpoint = (IF delta_token # NoToken THEN "cursor" ELSE "root")
    /\ page = 0
    /\ response = NoResponse
    /\ retry = 0
    /\ yielded = {}
    /\ markers = <<>>
    /\ route = "delta"
    /\ rootRequests = 0
    /\ sawDeltaLink = FALSE
    /\ throttled = 0
    /\ forced = 0

\* The walk, the save of the cursor that follows it (lines 707-710), and a kill
\* of the process at any moment of the two.
WalkNext ==
    \/ Walker
    \/ SaveToken
    \/ Crash

WalkSpec == WalkInit /\ [][WalkNext]_vars

\* The walker is a running thread: it takes its next step whenever it has one.
WalkFairSpec == WalkSpec /\ WF_vars(Walker)

(***************************************************************************)
(* Timestamp fallback: _stream_onedrive_files_recursive (1204-1315) and    *)
(* _stream_sharepoint_files_recursive (1317-1424), which differ in the     *)
(* paths they build only.  Every children request is answered.             *)
(***************************************************************************)
\* modified_after.strftime('%Y-%m-%dT%H:%M:%SZ'): the sub-second part is dropped.
FilterTime(modified_after) == modified_after - (modified_after % 2)

\* The items of response.json()['value'] for the children request of a folder:
\* with $filter evaluated, the children (files and folders alike) whose
\* lastModifiedDateTime is greater than filter_time; after a 400, the request
\* is repeated without the filter and answers all children.
Listed(folder, modified_after) ==
    IF filter_supported
    THEN {i \in Children(folder) : lastModified[i] > FilterTime(modified_after)}
    ELSE Children(folder)

\* A client-side filter that drops only the files modified before the time.
YieldedFilesNotStrict(items, modified_after) ==
    {i \in items \ SubFolders : filter_supported \/ ~(lastModified[i] < modified_after)}

\* The items of a listing that are yielded, which are those without the facet
\* "folder" (lines 1256 and 1263, 1289 and 1295): all of them when the server
\* has filtered, those not "file_modified <= modified_after" on the client side.
YieldedFiles(items, modified_after) ==
    {i \in items \ SubFolders : filter_supported \/ ~(lastModified[i] <= modified_after)}

RECURSIVE StreamFilesRecursive(_, _, _)
\* The files yielded by the call for `folder` at `depth`: nothing beyond
\* max_depth; else the yielded files of the listing and, for every folder of
\* the listing, the files of the recursive call at depth + 1.
StreamFilesRecursive(folder, depth, modified_after) ==
    IF depth > MaxDepth
    THEN {}
    ELSE LET items == Listed(folder, modified_after)
         IN YieldedFiles(items, modified_after)
              \cup UNION {StreamFilesRecursive(d, depth + 1, modified_after) :
                            d \in items \cap SubFolders}

\* Lines 1074-1079: fallback_func(modified_after = the parsed fallback_timestamp)
\* is iterated to its end.
FallbackWalk ==
    /\ fpc = "walk"
    /\ found' = StreamFilesRecursive("root", 0, last_backup_time)
    /\ fpc' = "done"
    /\ UNCHANGED <<pvars, notree, lastModified, last_backup_time, filter_supported>>

\* The walker has received 410 on its cursor; the drive is in any state.
FallbackInit ==
    /\ WalkIdle
    /\ dry_run = FALSE
    /\ cursor = PriorToken
    /\ dest = [f \in Files |-> Absent]
    /\ PipelineInit
    /\ lastModified \in [Items -> Times]
    /\ last_backup_time \in LastBackupTimes
    /\ filter_supported \in BOOLEAN
    /\ fpc = "walk"
    /\ found = {}
    /\ stop_event = FALSE
    /\ OthersIdle

FallbackNext == FallbackWalk

FallbackSpec == FallbackInit /\ [][FallbackNext]_vars

(***************************************************************************)
(* The same walk call by call: every call of the recursive generator is a  *)
(* frame of `stack`, with the items of its listing it has not yet visited. *)
(***************************************************************************)
\* What a step of the recursive walk leaves alone, beside the variables it names.
outwalk == <<pvars, walk, stop_event, auth, dl, rate, conv, job, load, trk, stamp,
             keys, back, lastModified, last_backup_time, filter_supported>>

\* A walk without the guard of lines 1229 and 1341.
NeverTooDeep(depth) == FALSE

\* Lines 1229-1230 and 1341-1342: "if depth > max_depth: return".
TooDeep(depth) == depth > MaxDepth

\* The call for `folder` at `depth`, before its first statement.
Call(folder, depth) == [folder |-> folder, depth |-> depth, entered |-> FALSE, items |-> {}]

\* The innermost call.
Top == stack[Len(stack)]

\* The call returns to its caller; the return of the outermost call ends the walk.
Return ==
    /\ stack' = SubSeq(stack, 1, Len(stack) - 1)
    /\ fpc' = IF Len(stack) = 1 THEN "done" ELSE fpc

\* Lines 1229-1247 and 1280-1285: the call returns at once beyond max_depth;
\* else it requests the children of its folder (again without $filter after a
\* 400) and has the items of the answer to visit.
EnterFolder ==
    /\ fpc = "walk"
    /\ stack # <<>>
    /\ ~Top.entered
    /\ IF TooDeep(Top.depth)
         THEN Return /\ UNCHANGED listed_folders
         ELSE /\ listed_folders' = listed_folders \cup {Top.folder}
              /\ stack' = [stack EXCEPT ![Len(stack)] =
                              [@ EXCEPT !.entered = TRUE,
                                        !.items = Listed(Top.folder, last_backup_time)]]
              /\ fpc' = fpc
    /\ found' = found
    /\ UNCHANGED outwalk

\* Lines 1249-1272 and 1287-1310: the next item of the listing, in the order
\* of the answer: a folder is walked by a call at depth + 1, any other item
\* is yielded unless the client-side filter drops it.
VisitItem ==
    /\ fpc = "walk"
    /\ stack # <<>>
    /\ Top.entered
    /\ \E item \in Top.items :
         LET rest == [stack EXCEPT ![Len(stack)] = [@ EXCEPT !.items = @ \ {item}]]
         IN IF item \in SubFolders
              THEN /\ stack' = Append(rest, Call(item, Top.depth + 1))
                   /\ found' = found
              ELSE /\ stack' = rest
                   /\ found' = found \cup YieldedFiles({item}, last_backup_time)
    /\ UNCHANGED <<fpc, listed_folders>>
    /\ UNCHANGED outwalk

\* The loop over the items has ended: the generator is exhausted.
LeaveFolder ==
    /\ fpc = "walk"
    /\ stack # <<>>
    /\ Top.entered
    /\ Top.items = {}
    /\ Return
    /\ UNCHANGED <<found, listed_folders>>
    /\ UNCHANGED outwalk

\* The times of the items of the drives walked call by call: before and
\* after the last backup.
DescendTimes == {2, 4}

\* Lines 946-953 and 980-984: the generator is called for the root with the
\* default depth 0; the drive is in any state.
DescendInit ==
    /\ WalkIdle
    /\ dry_run = FALSE
    /\ cursor = PriorToken
    /\ dest = [f \in Files |-> Absent]
    /\ PipelineInit
    /\ lastModified \in [Items -> DescendTimes]
    /\ last_backup_time = 3
    /\ filter_supported \in BOOLEAN
    /\ fpc = "walk"
    /\ found = {}
    /\ stop_event = FALSE
    /\ AuthIdle
    /\ DownloadIdle
    /\ RateIdle
    /\ ConvergeIdle
    /\ JobIdle
    /\ LoadIdle
    /\ TrackerIdle
    /\ StampIdle
    /\ KeysIdle
    /\ BackoffIdle
    /\ stack = <<Call("root", 0)>>
    /\ listed_folders = {}

DescendNext ==
    \/ EnterFolder
    \/ VisitItem
    \/ LeaveFolder

\* The thread of the producer runs the generator to its end: every call that
\* can take a step takes it.
DescendSpec == DescendInit /\ [][DescendNext]_vars /\ WF_vars(DescendNext)


(***************************************************************************)
(* Token source: MicrosoftGraphAuth.get_access_token                       *)
(* (src/src/onedrive_backup/auth/microsoft_auth.py, lines 135-207), called *)
(* by the walker before every page request (backup_manager.py 1036, 1059)  *)
(* and by every worker before and within a download (1499, 1510).  The     *)
(* method takes no lock.                                                   *)
(***************************************************************************)
\* The number of tokens the authority issues within the run.
MaxTokens == 3

\* What a call that raised "Token refresh failed" returns.
Raised == -1

\* A thread calls get_access_token(force_refresh).
GetAccessToken(c) ==
    /\ apc[c] = "idle"
    /\ apc' = [apc EXCEPT ![c] = "check"]
    /\ \E f \in BOOLEAN : force_refresh' = [force_refresh EXCEPT ![c] = f]
    /\ UNCHANGED <<access_token, token_expired, issued, returned>>
    /\ UNCHANGED noauth

\* _is_token_expired(): no token, or the clock within the buffer before expiry.
IsTokenExpired == access_token = 0 \/ token_expired

\* Line 169: with a token that needs no refresh the call returns it (line 207);
\* else the refresh starts, with acquire_token_silent when the cache has an
\* account (line 177) and with acquire_token_for_client when it has none.
CheckToken(c) ==
    /\ apc[c] = "check"
    /\ IF force_refresh[c] \/ IsTokenExpired
          THEN /\ \E accounts \in BOOLEAN :
                     apc' = [apc EXCEPT ![c] = IF accounts THEN "silent" ELSE "client"]
               /\ UNCHANGED returned
          ELSE /\ apc' = [apc EXCEPT ![c] = "idle"]
               /\ returned' = [returned EXCEPT ![c] = access_token]
    /\ UNCHANGED <<access_token, token_expired, issued, force_refresh>>
    /\ UNCHANGED noauth

\* The answer of the authority holds an access token: lines 180-185 and 192-197.
StoreToken(c) ==
    /\ issued < MaxTokens
    /\ issued' = issued + 1
    /\ access_token' = issued + 1
    /\ token_expired' = FALSE
    /\ returned' = [returned EXCEPT ![c] = issued + 1]
    /\ apc' = [apc EXCEPT ![c] = "idle"]

\* acquire_token_silent (line 178) returns: with a token, or without one, and
\* then the call goes on to the client credentials (line 190).
AcquireTokenSilent(c) ==
    /\ apc[c] = "silent"
    /\ \/ StoreToken(c)
       \/ /\ apc' = [apc EXCEPT ![c] = "client"]
          /\ UNCHANGED <<access_token, token_expired, issued, returned>>
    /\ UNCHANGED force_refresh
    /\ UNCHANGED noauth

\* acquire_token_for_client (line 190) returns: with a token, or with an error,
\* and then the call raises (line 201).
AcquireTokenForClient(c) ==
    /\ apc[c] = "client"
    /\ \/ StoreToken(c)
       \/ /\ apc' = [apc EXCEPT ![c] = "idle"]
          /\ returned' = [returned EXCEPT ![c] = Raised]
          /\ UNCHANGED <<access_token, token_expired, issued>>
    /\ UNCHANGED force_refresh
    /\ UNCHANGED noauth

\* Time passes: the token comes within five minutes of its expiry.
TokenExpires ==
    /\ access_token # 0
    /\ ~token_expired
    /\ token_expired' = TRUE
    /\ UNCHANGED <<access_token, issued, apc, force_refresh, returned>>
    /\ UNCHANGED noauth

\* The callers whose request to the authority is in flight.
Refreshing == {c \in Callers : apc[c] \in {"silent", "client"}}

AuthInit ==
    /\ WalkIdle
    /\ TreeIdle
    /\ PipelineIdle
    /\ DescendIdle
    /\ BackoffIdle
    /\ KeysIdle
    /\ StampIdle
    /\ TrackerIdle
    /\ LoadIdle
    /\ DownloadIdle
    /\ RateIdle
    /\ ConvergeIdle
    /\ JobIdle
    /\ access_token \in {0, 1}
    /\ token_expired \in BOOLEAN
    /\ issued = access_token
    /\ apc = [c \in Callers |-> "idle"]
    /\ force_refresh = [c \in Callers |-> FALSE]
    /\ returned = [c \in Callers |-> 0]

AuthNext ==
    \/ \E c \in Callers : GetAccessToken(c)
    \/ \E c \in Callers : CheckToken(c)
    \/ \E c \in Callers : AcquireTokenSilent(c)
    \/ \E c \in Callers : AcquireTokenForClient(c)
    \/ TokenExpires

AuthSpec == AuthInit /\ [][AuthNext]_vars

(***************************************************************************)
(* One download and put: _stream_to_aws_s3, lines 1459-1619, called by a    *)
(* worker through _stream_upload_file for the file it holds.  The source   *)
(* and the object store answer each request in any way they can.           *)
(***************************************************************************)
\* The status codes of a download response; 0 stands for requests.get raising.
DownloadStatuses == {0, 200, 401, 429, 500}

\* The Retry-After header of a 429: absent, an HTTP date (not an integer), or a
\* number of seconds.
NoRetryAfter == -2
DateRetryAfter == -1
RetryAfters == {NoRetryAfter, DateRetryAfter, 3}

MinOf(a, b) == IF a <= b THEN a ELSE b

\* Lines 1513-1518 and 1541-1545: retry_after defaults to str(retry_delay) and
\* int() of a date raises ValueError.
WaitTime(retry_after, delay) == IF retry_after < 0 THEN delay ELSE retry_after

\* return {'success': False, ...}: 'Failed to download: HTTP ...' (line 1610)
\* for "download", 'AWS S3 upload error: ...' (line 1615) for "error".
DownloadReturns(res) ==
    /\ dpc' = "returned"
    /\ dresult' = res

\* The body of the for loop has ended without a break: the next attempt, or the
\* end of the loop after max_retries attempts, with the last response not 200.
NextAttempt ==
    IF attempt + 1 < MaxRetries
      THEN attempt' = attempt + 1 /\ dpc' = "attempt" /\ dresult' = dresult
      ELSE attempt' = attempt /\ DownloadReturns("download")

\* One iteration of the download loop up to its first response: lines 1498-1504
\* and 1506-1527 with a token, lines 1535-1553 for a pre-authenticated URL.
DownloadAttempt ==
    /\ dpc = "attempt"
    /\ \E st \in DownloadStatuses :
         /\ dstatus' = st
         /\ dthrottled' = (IF st = 429 THEN dthrottled + 1 ELSE 0)
         /\ CASE st = 0 ->
                   /\ DownloadReturns("error")
                   /\ UNCHANGED <<attempt, retry_delay, slept>>
              [] st = 200 ->
                   /\ dpc' = "put"
                   /\ UNCHANGED <<attempt, retry_delay, slept, dresult>>
              [] st = 401 /\ needs_auth ->
                   /\ dpc' = "forced"
                   /\ UNCHANGED <<attempt, retry_delay, slept, dresult>>
              [] st = 429 ->
                   /\ NextAttempt
                   /\ IF attempt < MaxRetries - 1
                        THEN \E ra \in RetryAfters :
                               /\ slept' = WaitTime(ra, retry_delay)
                               /\ retry_delay' = MinOf(retry_delay * 2, 60)
                        ELSE UNCHANGED <<retry_delay, slept>>
              [] OTHER ->
                   /\ DownloadReturns("download")
                   /\ UNCHANGED <<attempt, retry_delay, slept>>
    /\ UNCHANGED <<dfile, buffered, put_meta, needs_auth, puts, dforced>>
    /\ UNCHANGED nodl

\* Lines 1505-1511: after a 401 the token is refreshed with force_refresh=True
\* and the download is requested again; only a 200 leaves the loop.
DownloadForced ==
    /\ dpc = "forced"
    /\ dforced' = dforced + 1
    /\ \E st \in DownloadStatuses :
         /\ dstatus' = st
         /\ dthrottled' = (IF st = 429 THEN dthrottled + 1 ELSE 0)
         /\ CASE st = 0 -> DownloadReturns("error") /\ attempt' = attempt
              [] st = 200 -> dpc' = "put" /\ UNCHANGED <<attempt, dresult>>
              [] OTHER -> NextAttempt
    /\ UNCHANGED <<dfile, buffered, put_meta, needs_auth, retry_delay, slept, puts>>
    /\ UNCHANGED nodl

\* get_access_token raises (microsoft_auth.py line 201) at line 1499 or 1507:
\* the except of line 1615 returns the error.
DownloadTokenFails ==
    /\ needs_auth
    /\ dpc \in {"attempt", "forced"}
    /\ DownloadReturns("error")
    /\ UNCHANGED <<dfile, buffered, put_meta, needs_auth, attempt, dstatus, retry_delay, slept, puts, dthrottled, dforced>>
    /\ UNCHANGED nodl

\* The characters of the paths of the model, "a" and an e with an acute
\* accent, with their UTF-8 bytes.
Chars == {"a", "e'"}
Utf8Char(c) == IF c = "a" THEN <<97>> ELSE <<195, 169>>

\* The longest path of the model, in characters, and the largest file, in
\* chunks of the body.
MaxPathLen == 2
MaxSize == 2
\* The bytes a streaming copy holds at a time, the unit of the sizes.
ChunkSize == 1

Paths == UNION {[1..n -> Chars] : n \in 1..MaxPathLen}

RECURSIVE Utf8(_)
\* file_path.encode('utf-8'), line 1556.
Utf8(path) == IF path = <<>> THEN <<>> ELSE Utf8Char(Head(path)) \o Utf8(Tail(path))

\* The "=" that pads the last group of a base64 text, beside the 64 digits.
Pad == 64

RECURSIVE B64Encode(_)
\* base64.b64encode, line 1556: every three bytes give four digits of six
\* bits, and a last group of one or two bytes is padded.
B64Encode(bytes) ==
    CASE Len(bytes) = 0 -> <<>>
      [] Len(bytes) = 1 -> <<bytes[1] \div 4, (bytes[1] % 4) * 16, Pad, Pad>>
      [] Len(bytes) = 2 -> <<bytes[1] \div 4, (bytes[1] % 4) * 16 + bytes[2] \div 16,
                             (bytes[2] % 16) * 4, Pad>>
      [] OTHER -> <<bytes[1] \div 4, (bytes[1] % 4) * 16 + bytes[2] \div 16,
                    (bytes[2] % 16) * 4 + bytes[3] \div 64, bytes[3] % 64>>
                  \o B64Encode(SubSeq(bytes, 4, Len(bytes)))

\* Lines 1556-1557 and 1570-1575, the same at lines 1592-1597: the metadata of
\* the object.
Metadata(file) ==
    [original_path_encoded |-> B64Encode(Utf8(file.path)),
     source |-> "onedrive-backup",
     encoding |-> "base64-utf8",
     source_modified_time |-> file.modified_time]

\* Line 1559, io.BytesIO(response.content): the bytes of the body that are in
\* memory when upload_fileobj is called, all of them.
ResponseContent(file) == file.size

\* Lines 1555-1577: the body is read, and upload_fileobj returns, raises a
\* ClientError whose code names expired credentials (line 1580), or raises
\* anything else.
Put ==
    /\ dpc = "put"
    /\ buffered' = ResponseContent(dfile)
    /\ puts' = puts + 1
    /\ put_meta' = Append(put_meta, Metadata(dfile))
    /\ \/ DownloadReturns("success")
       \/ dpc' = "refresh" /\ dresult' = dresult
       \/ DownloadReturns("error")
    /\ UNCHANGED <<dfile, needs_auth, attempt, dstatus, retry_delay, slept, dthrottled, dforced>>
    /\ UNCHANGED nodl

\* Lines 1578-1586 with 1615-1619: the handler of the expired credentials
\* calls self.aws_auth.refresh_credentials(), a method AWSAuth does not have
\* (auth/cloud_auth.py 12-90).  The AttributeError leaves the handler before
\* file_content.seek(0) and the second upload_fileobj of lines 1587-1599, and
\* is caught at line 1615: 'success': False, with no further put.
RefreshCredentials ==
    /\ dpc = "refresh"
    /\ puts' = puts
    /\ put_meta' = put_meta
    /\ DownloadReturns("error")
    /\ UNCHANGED <<dfile, buffered, needs_auth, attempt, dstatus, retry_delay, slept,
                   dthrottled, dforced>>
    /\ UNCHANGED nodl

Download ==
    \/ DownloadAttempt
    \/ DownloadForced
    \/ DownloadTokenFails
    \/ Put
    \/ RefreshCredentials

\* Line 1494 or 1532: the loop is about to start.
DownloadStarts ==
    /\ dfile \in [path : Paths, modified_time : Times, size : 1..MaxSize]
    /\ buffered = 0
    /\ put_meta = <<>>
    /\ needs_auth \in BOOLEAN
    /\ dpc = "attempt"
    /\ attempt = 0
    /\ dstatus = 0
    /\ retry_delay = 1
    /\ slept = 0
    /\ puts = 0
    /\ dresult = "none"
    /\ dthrottled = 0
    /\ dforced = 0

DownloadInit ==
    /\ WalkIdle
    /\ TreeIdle
    /\ PipelineIdle
    /\ DescendIdle
    /\ BackoffIdle
    /\ KeysIdle
    /\ StampIdle
    /\ TrackerIdle
    /\ LoadIdle
    /\ AuthIdle
    /\ RateIdle
    /\ ConvergeIdle
    /\ JobIdle
    /\ DownloadStarts

DownloadNext == Download

DownloadSpec == DownloadInit /\ [][DownloadNext]_vars

(***************************************************************************)
(* The requests to the source: a walk of the delta walker, or the download *)
(* of one file.                                                            *)
(***************************************************************************)
RequestInit == WalkInit \/ DownloadInit

RequestNext ==
    \/ dpc = "idle" /\ WalkNext
    \/ Download

RequestSpec == RequestInit /\ [][RequestNext]_vars

(***************************************************************************)
(* A rate-limited walk against the clock: the retry loop of                *)
(* _stream_delta_files (lines 1041-1056) sleeps in the producer thread     *)
(* while the workers, submitted before the walk starts (lines 683-695),    *)
(* wait in get_next_file(timeout=40.0) (line 575).  The first throttle     *)
(* requests of the walk are answered 429, the next one 200 with a page of  *)
(* MaxFiles files and the delta link.                                      *)
(***************************************************************************)
\* The longest time, in seconds, the server takes to answer one request.
MaxLatency == 2
Latencies == {0, MaxLatency}

\* queue_manager.get_next_file(timeout=40.0)
Timeout == 40

\* The clock is not followed beyond the timeout of the workers.
Later(seconds) == MinOf(clock + seconds, Timeout)

\* Line 1041: the request of the page, answered after some latency.
RateGet ==
    /\ rpc = "get"
    /\ \E l \in Latencies : clock' = Later(l)
    /\ answered' = answered + 1
    /\ rpc' = IF answered < throttle THEN "retry" ELSE "page"
    /\ rdelay' = 1
    /\ rretry' = 0
    /\ UNCHANGED <<throttle, alive, rsent, rprocessed>>
    /\ UNCHANGED norate

\* Lines 1048-1053: one round of the retry loop: sleep, request, and doubling
\* of the delay unless the answer is 200.  After max_retries rounds the loop
\* ends and the walk with it (line 1114).
RateRetry ==
    /\ rpc = "retry"
    /\ \E l \in Latencies : clock' = Later(rdelay + l)
    /\ answered' = answered + 1
    /\ IF answered >= throttle
         THEN rpc' = "page" /\ UNCHANGED <<rdelay, rretry>>
         ELSE /\ rdelay' = rdelay * 2
              /\ rretry' = rretry + 1
              /\ rpc' = IF rretry + 1 = MaxRetries THEN "stopped" ELSE "retry"
    /\ UNCHANGED <<throttle, alive, rsent, rprocessed>>
    /\ UNCHANGED norate

\* Lines 575-579: no file has arrived within the timeout, the workers leave
\* their loop.
RateTimeout ==
    /\ alive
    /\ rsent = rprocessed
    /\ clock >= Timeout
    /\ alive' = FALSE
    /\ UNCHANGED <<throttle, clock, rpc, answered, rdelay, rretry, rsent, rprocessed>>
    /\ UNCHANGED norate

\* The workers that have waited for the whole timeout have left.
TimeoutsTaken == ~(alive /\ rsent = rprocessed /\ clock >= Timeout)

\* Lines 1177-1180 and 704-705: a file of the page is yielded and put on the
\* queue.
RateYield ==
    /\ rpc = "page"
    /\ TimeoutsTaken
    /\ rsent < MaxFiles
    /\ rsent - rprocessed < QueueCap
    /\ rsent' = rsent + 1
    /\ UNCHANGED <<throttle, clock, rpc, answered, rdelay, rretry, alive, rprocessed>>
    /\ UNCHANGED norate

\* Lines 581-629: a worker takes a file from the queue and processes it.
RateProcess ==
    /\ alive
    /\ rprocessed < rsent
    /\ rprocessed' = rprocessed + 1
    /\ UNCHANGED <<throttle, clock, rpc, answered, rdelay, rretry, alive, rsent>>
    /\ UNCHANGED norate

\* Lines 1191-1196 and 707-730: the marker is yielded, the cursor saved, the
\* sentinels are put and the workers joined; the totals of the target are read.
RateFinish ==
    /\ rpc = "page"
    /\ TimeoutsTaken
    /\ rsent = MaxFiles
    /\ alive => rprocessed = rsent
    /\ rpc' = "done"
    /\ alive' = FALSE
    /\ UNCHANGED <<throttle, clock, answered, rdelay, rretry, rsent, rprocessed>>
    /\ UNCHANGED norate

RateInit ==
    /\ WalkIdle
    /\ TreeIdle
    /\ PipelineIdle
    /\ DescendIdle
    /\ BackoffIdle
    /\ KeysIdle
    /\ StampIdle
    /\ TrackerIdle
    /\ LoadIdle
    /\ AuthIdle
    /\ DownloadIdle
    /\ ConvergeIdle
    /\ JobIdle
    /\ throttle \in 0..(MaxRetries + 1)
    /\ clock = 0
    /\ rpc = "get"
    /\ answered = 0
    /\ rdelay = 1
    /\ rretry = 0
    /\ alive = TRUE
    /\ rsent = 0
    /\ rprocessed = 0

RateNext ==
    \/ RateGet
    \/ RateRetry
    \/ RateTimeout
    \/ RateYield
    \/ RateProcess
    \/ RateFinish

RateSpec == RateInit /\ [][RateNext]_vars

(***************************************************************************)
(* One file that is modified while a walk is in progress, and the run that *)
(* follows.  A delta link stands for a state of the drive: a query with    *)
(* the link reports the file if it has changed since that state.  The link *)
(* at the end of a delta paging stands for the state the pages reported;   *)
(* the link of the fresh delta query after a timestamp fallback (lines     *)
(* 1082-1099) stands for the state of the drive at that query, whose items *)
(* the walker does not yield.  No request fails and no worker times out.   *)
(***************************************************************************)
\* The file is modified at most up to this version during the first run.
MaxVersion == 3

\* Lines 1122-1180 (a page of the delta query) or 1078-1079 (the children
\* listing of the fallback walk, filtered on the last backup time, which is the
\* time of the persisted cursor): the file is yielded, with the modified time
\* it has now, if it has changed since the cursor.
ListFile ==
    /\ cpc = "list"
    /\ listed' = IF srcVersion > cursor_point THEN srcVersion ELSE 0
    /\ cpc' = "link"
    /\ UNCHANGED <<srcVersion, cpath, crun, marker_point, cursor_point, cstored>>
    /\ UNCHANGED noconv

\* Lines 1191-1196: the last page of the delta paging carries the delta link.
\* Lines 1082-1095: after the fallback walk the fresh delta query is paged to
\* its delta link.  The link is yielded as the marker.
TakeLink ==
    /\ cpc = "link"
    /\ marker_point' = IF cpath = "fallback" THEN srcVersion
                       ELSE IF listed # 0 THEN listed ELSE cursor_point
    /\ cpc' = "upload"
    /\ UNCHANGED <<srcVersion, cpath, crun, listed, cursor_point, cstored>>
    /\ UNCHANGED noconv

\* Lines 590-618: the worker that dequeued the file skips it, or uploads it
\* with the modified time of the file_info as source-modified-time.
UploadListed ==
    /\ cpc = "upload"
    /\ cstored' = IF listed # 0 /\ ~S3FileExists("ok", cstored, listed) THEN listed ELSE cstored
    /\ cpc' = "save"
    /\ UNCHANGED <<srcVersion, cpath, crun, listed, marker_point, cursor_point>>
    /\ UNCHANGED noconv

\* Lines 707-710: the marker is saved as the cursor of the target.
SaveLink ==
    /\ cpc = "save"
    /\ cursor_point' = marker_point
    /\ cpc' = "done"
    /\ UNCHANGED <<srcVersion, cpath, crun, listed, marker_point, cstored>>
    /\ UNCHANGED noconv

\* The file is modified at the source while the walk of the first run is in
\* progress.
ModifyFile ==
    /\ crun = 1
    /\ cpc \in {"list", "link"}
    /\ srcVersion < MaxVersion
    /\ srcVersion' = srcVersion + 1
    /\ UNCHANGED <<cpath, cpc, crun, listed, marker_point, cursor_point, cstored>>
    /\ UNCHANGED noconv

\* The next run: its delta query with the saved cursor is accepted.
FurtherRun ==
    /\ crun = 1
    /\ cpc = "done"
    /\ crun' = 2
    /\ cpc' = "list"
    /\ cpath' = "delta"
    /\ listed' = 0
    /\ marker_point' = 0
    /\ UNCHANGED <<srcVersion, cursor_point, cstored>>
    /\ UNCHANGED noconv

\* The target has a cursor and the file either has changed since (its object,
\* if any, is of an earlier version) or has not (its object is current).
ConvergeInit ==
    /\ WalkIdle
    /\ TreeIdle
    /\ PipelineIdle
    /\ DescendIdle
    /\ BackoffIdle
    /\ KeysIdle
    /\ StampIdle
    /\ TrackerIdle
    /\ LoadIdle
    /\ AuthIdle
    /\ DownloadIdle
    /\ RateIdle
    /\ JobIdle
    /\ srcVersion \in 1..(MaxVersion - 1)
    /\ cpath \in {"delta", "fallback"}
    /\ cpc = "list"
    /\ crun = 1
    /\ listed = 0
    /\ marker_point = 0
    /\ cursor_point \in {srcVersion - 1, srcVersion}
    /\ cstored \in {0, cursor_point}
    /\ cstored = 0 => cursor_point < srcVersion

ConvergeNext ==
    \/ ListFile
    \/ TakeLink
    \/ UploadListed
    \/ SaveLink
    \/ ModifyFile
    \/ FurtherRun

ConvergeSpec == ConvergeInit /\ [][ConvergeNext]_vars

(***************************************************************************)
(* A job: run_backup_job (lines 451-510), _process_source (512-560), the    *)
(* discovery of _process_onedrive_source / _process_sharepoint_source      *)
(* (742-929) and the loop over the targets of _process_items_with_delta    *)
(* (631-740), each target taken as one step with one of its outcomes.      *)
(***************************************************************************)
\* len(job_config.sources)
NSources == 2
\* The most targets (users or drives) a source has.
MaxTargets == 2
\* The most files a target uploads.
MaxUploads == 1

\* Lines 476-478: the destination of the job is looked up; an unknown name
\* raises ValueError, caught at line 500.
GetDestination ==
    /\ jpc = "start"
    /\ \E known \in BOOLEAN :
         IF known
           THEN /\ jpc' = "source"
                /\ source_idx' = 1
                /\ UNCHANGED <<job_status, job_errors>>
           ELSE /\ jpc' = "returned"
                /\ job_status' = "failed"
                /\ job_errors' = job_errors + 1
                /\ UNCHANGED source_idx
    /\ UNCHANGED <<job_dry_run, ntargets, target_idx, src_uploaded, src_errors,
                   job_uploaded, checkpoints, called, aborted, writes>>
    /\ UNCHANGED nojob

\* A job that ends as failed at the first source it cannot look up.
SkipSourceFailsJob ==
    /\ source_idx' = source_idx
    /\ jpc' = "returned"
    /\ job_status' = "failed"

\* Line 486: "continue", the loop goes to the next source of the job.
SkipSource ==
    /\ source_idx' = source_idx + 1
    /\ jpc' = jpc
    /\ job_status' = job_status

\* Lines 481-489: the next source of the job is looked up; an unknown name is
\* recorded and skipped, a known one is handed to _process_source.
GetSource ==
    /\ jpc = "source"
    /\ source_idx <= NSources
    /\ \E known \in BOOLEAN :
         IF known
           THEN /\ jpc' = "discover"
                /\ called' = called \cup {source_idx}
                /\ UNCHANGED <<source_idx, job_errors, job_status>>
           ELSE /\ job_errors' = job_errors + 1
                /\ SkipSource
                /\ UNCHANGED called
    /\ src_uploaded' = 0
    /\ src_errors' = 0
    /\ ntargets' = 0
    /\ target_idx' = 0
    /\ UNCHANGED <<job_dry_run, job_uploaded, checkpoints, aborted, writes>>
    /\ UNCHANGED nojob

\* The users or drives a source can have.
Targets == 1..MaxTargets

\* Lines 814-828: the users with a drive that the configuration allows; every
\* one of them when it says "all" (or is not a list).
UsersToProcess(users_with_onedrive, all, allowed_users) ==
    IF all THEN users_with_onedrive ELSE users_with_onedrive \cap allowed_users

\* Lines 765-841 / 871-923 and 655: the token is fetched and the users or
\* drives are listed.  A token that cannot be acquired raises into the except
\* of line 843 / 925, a listing that is not answered 200 returns at line 787 /
\* 890: one error string either way, and no target is processed.
Discover ==
    /\ jpc = "discover"
    /\ \/ /\ src_errors' = src_errors + 1
          /\ jpc' = "checkpoint"
          /\ UNCHANGED <<ntargets, target_idx>>
       \/ /\ \E users_with_onedrive \in SUBSET Targets, all \in BOOLEAN,
                allowed_users \in SUBSET Targets :
                ntargets' = Cardinality(UsersToProcess(users_with_onedrive, all, allowed_users))
          /\ target_idx' = 1
          /\ jpc' = "target"
          /\ UNCHANGED src_errors
    /\ UNCHANGED <<job_status, job_dry_run, source_idx, src_uploaded, job_uploaded,
                   job_errors, checkpoints, called, aborted, writes>>
    /\ UNCHANGED nojob

\* Lines 664-738, one target.  "complete": the walk ended with its marker;
\* "aborted": the walker stopped on a page request that failed past its
\* retries (line 1114) or on a token that could not be acquired (the raise of
\* get_access_token at line 1036, caught at line 1201), which are logged;
\* "raised": an exception reached the except of line 735.  Files uploaded
\* and per-file errors are counted in every case (lines 724-730), except that
\* "raised" skips the aggregation.  Lines 707-710: the cursor of the target is
\* put when the walk gave its marker and the job is not a dry run (a put that
\* raises is caught and logged within _save_delta_token, line 302).
ProcessTarget ==
    /\ jpc = "target"
    /\ target_idx <= ntargets
    /\ \E outcome \in {"complete", "aborted", "raised"}, up \in 0..MaxUploads, failed \in 0..1 :
         /\ src_uploaded' = IF outcome = "raised" THEN src_uploaded ELSE src_uploaded + up
         /\ src_errors' = IF outcome = "raised" THEN src_errors + 1 ELSE src_errors + failed
         /\ aborted' = IF outcome = "complete" THEN aborted ELSE aborted \cup {source_idx}
         /\ \E saved \in BOOLEAN :
              writes' = IF outcome = "complete" /\ ~job_dry_run /\ saved
                          THEN Append(writes, <<"cursor", source_idx, target_idx>>)
                          ELSE writes
    /\ target_idx' = target_idx + 1
    /\ UNCHANGED <<jpc, job_status, job_dry_run, source_idx, ntargets, job_uploaded,
                   job_errors, checkpoints, called>>
    /\ UNCHANGED nojob

\* A loop over the targets that ends after the first target.
LoopEndsAfterFirst == target_idx > 1

\* Lines 663 and 740: the loop over the targets has no target left.
LoopEnds == target_idx > ntargets

\* Line 740: every target of the source has been processed.
TargetsDone ==
    /\ jpc = "target"
    /\ LoopEnds
    /\ jpc' = "checkpoint"
    /\ UNCHANGED <<job_status, job_dry_run, source_idx, ntargets, target_idx, src_uploaded,
                   src_errors, job_uploaded, job_errors, checkpoints, called, aborted, writes>>
    /\ UNCHANGED nojob

\* A checkpoint that is written at the end of every source run that is not a
\* dry run.
ShouldSaveTimestampAlways == ~job_dry_run

\* Line 552: the condition under which _save_backup_timestamp is called.
ShouldSaveTimestamp == src_uploaded > 0 /\ ~job_dry_run

\* Lines 551-553 and 492-496: the checkpoint of the source is written if files
\* were uploaded and the job is not a dry run (a put_object that raises is
\* caught and logged within _save_backup_timestamp, line 449); the results are
\* added to those of the job.
SaveBackupTimestamp ==
    /\ jpc = "checkpoint"
    /\ \E written \in BOOLEAN :
         IF ShouldSaveTimestamp /\ written
           THEN /\ checkpoints' = checkpoints \cup {source_idx}
                /\ writes' = Append(writes, <<"checkpoint", source_idx>>)
           ELSE /\ ShouldSaveTimestamp \/ written
                /\ UNCHANGED <<checkpoints, writes>>
    /\ job_errors' = job_errors + src_errors
    /\ job_uploaded' = job_uploaded + src_uploaded
    /\ source_idx' = source_idx + 1
    /\ jpc' = "source"
    /\ UNCHANGED <<job_status, job_dry_run, ntargets, target_idx, src_uploaded, src_errors,
                   called, aborted>>
    /\ UNCHANGED nojob

\* A job that counts as failed when nothing was uploaded.
FinalStatusByUploads == IF job_uploaded = 0 THEN "failed" ELSE "completed"

\* Line 498.
FinalStatus == "completed"

\* Line 498: every source has been processed.
JobCompleted ==
    /\ jpc = "source"
    /\ source_idx > NSources
    /\ job_status' = FinalStatus
    /\ jpc' = "returned"
    /\ UNCHANGED <<job_dry_run, source_idx, ntargets, target_idx, src_uploaded, src_errors,
                   job_uploaded, job_errors, checkpoints, called, aborted, writes>>
    /\ UNCHANGED nojob

\* Lines 460-472.
JobInit ==
    /\ WalkIdle
    /\ TreeIdle
    /\ PipelineIdle
    /\ DescendIdle
    /\ BackoffIdle
    /\ KeysIdle
    /\ StampIdle
    /\ TrackerIdle
    /\ LoadIdle
    /\ AuthIdle
    /\ DownloadIdle
    /\ RateIdle
    /\ ConvergeIdle
    /\ jpc = "start"
    /\ job_status = "started"
    /\ job_dry_run \in BOOLEAN
    /\ source_idx = 0
    /\ ntargets = 0
    /\ target_idx = 0
    /\ src_uploaded = 0
    /\ src_errors = 0
    /\ job_uploaded = 0
    /\ job_errors = 0
    /\ checkpoints = {}
    /\ called = {}
    /\ aborted = {}
    /\ writes = <<>>

JobNext ==
    \/ GetDestination
    \/ GetSource
    \/ Discover
    \/ ProcessTarget
    \/ TargetsDone
    \/ SaveBackupTimestamp
    \/ JobCompleted

JobSpec == JobInit /\ [][JobNext]_vars

(***************************************************************************)
(* The load of the cursor of a target: _get_delta_token (219-264), its use *)
(* at lines 672-674 and the choice of the first endpoint (1024-1030),      *)
(* followed by the walk.                                                   *)
(***************************************************************************)
\* What the object of the cursor can be.  "missing": get_object raises
\* NoSuchKey; "malformed": the body is not the JSON of an object; "json": an
\* object with or without the keys delta_token and last_backup_time;
\* "no_client": the S3 client cannot be made, get_s3_client raises.
CursorFiles ==
    {[state |-> st, delta_token |-> NoToken, last_backup_time |-> FALSE] :
        st \in {"missing", "malformed", "no_client"}}
    \cup [state : {"json"}, delta_token : {NoToken, PriorToken}, last_backup_time : BOOLEAN]

\* None, as a value of delta_info.
NoDeltaInfo == [raised |-> FALSE, delta_token |-> NoToken, last_backup_time |-> FALSE]

\* A load that lets the error of a body that cannot be parsed reach its caller.
GetDeltaTokenRaising(file) ==
    CASE file.state \in {"no_client", "malformed"} ->
           [raised |-> TRUE, delta_token |-> NoToken, last_backup_time |-> FALSE]
      [] file.state = "missing" -> NoDeltaInfo
      [] file.delta_token = NoToken -> NoDeltaInfo
      [] OTHER -> [raised |-> FALSE, delta_token |-> file.delta_token,
                   last_backup_time |-> file.last_backup_time]

\* Lines 230-264.  NoSuchKey (line 259) and every other exception of the read
\* (line 261) end in "return None", and so does a body without a delta_token
\* (line 250).  When get_s3_client raises, the name s3_client is unbound and
\* the evaluation of the except clause of line 259 raises in its turn.
GetDeltaToken(file) ==
    CASE file.state = "no_client" ->
           [raised |-> TRUE, delta_token |-> NoToken, last_backup_time |-> FALSE]
      [] file.state \in {"missing", "malformed"} -> NoDeltaInfo
      [] file.delta_token = NoToken -> NoDeltaInfo
      [] OTHER -> [raised |-> FALSE, delta_token |-> file.delta_token,
                   last_backup_time |-> file.last_backup_time]

\* Lines 672-674 and 698, then 1024-1030: the cursor is loaded and the walker
\* is called with its token and its last_backup_time; an exception of the load
\* reaches the except of line 735 and the target is not walked.
LoadCursor ==
    /\ lpc = "start"
    /\ delta_info' = GetDeltaToken(cursor_file)
    /\ IF delta_info'.raised
         THEN /\ lpc' = "raised"
              /\ UNCHANGED <<wkpc, delta_token, fallback_timestamp, endpoint>>
         ELSE /\ lpc' = "loaded"
              /\ delta_token' = delta_info'.delta_token
              /\ fallback_timestamp' = delta_info'.last_backup_time
              /\ endpoint' = (IF delta_token' # NoToken THEN "cursor" ELSE "root")
              /\ wkpc' = "get"
    /\ UNCHANGED <<page, response, retry, yielded, markers, route, rootRequests,
                   sawDeltaLink, asked>>
    /\ UNCHANGED <<cursor_file, pvars, tree, stop_event, auth, dl, rate, conv, job, trk, stamp, keys, back, rec>>

\* _process_items_with_delta at line 672 for one target, with any object, or
\* none, where its cursor is kept.
LoadInit ==
    /\ WalkIdle
    /\ TreeIdle
    /\ AuthIdle
    /\ DownloadIdle
    /\ RateIdle
    /\ ConvergeIdle
    /\ JobIdle
    /\ TrackerIdle
    /\ StampIdle
    /\ KeysIdle
    /\ BackoffIdle
    /\ DescendIdle
    /\ dry_run \in BOOLEAN
    /\ cursor_file \in CursorFiles
    /\ cursor = cursor_file.delta_token
    /\ dest = [f \in Files |-> Absent]
    /\ PipelineInit
    /\ lpc = "start"
    /\ delta_info = NoDeltaInfo

LoadNext ==
    \/ LoadCursor
    \/ (lpc = "loaded" /\ WalkNext)

LoadSpec == LoadInit /\ [][LoadNext]_vars

(***************************************************************************)
(* The file tracker: FileTracker of sync/file_tracker.py, its dictionary   *)
(* _file_states and the calls has_file_changed and update_file_info.       *)
(***************************************************************************)
\* The paths the tracker is asked about.
TrackedPaths == {"p", "q"}
\* The sizes of a file.
Sizes == {1, 2}
\* datetime values: the second and the microsecond of a modification time.
DateTimes == {[sec |-> 1, micro |-> 0], [sec |-> 1, micro |-> 1], [sec |-> 2, micro |-> 0]}
\* hash_md5: 0 for None, or one of two digests.
Hashes == 0..2
\* The destination a backup is recorded for.
Destinations == {"azure_blob"}

\* datetime.isoformat(): "YYYY-MM-DDTHH:MM:SS", followed by ".ffffff" only
\* when the microsecond is not 0; the text is a sequence of its fields.
IsoFormat(dt) == IF dt.micro = 0 THEN <<dt.sec>> ELSE <<dt.sec, dt.micro>>

\* A string update_file_info may be given in place of a datetime: a
\* lastModifiedDateTime of the source, which ends in "Z" (the field 90).
TimeStrings == {<<1, 90>>}

\* The modified_time argument of a call: a datetime or a string.
AsDateTime(dt) == [kind |-> "datetime", value |-> <<dt.sec, dt.micro>>, text |-> <<>>]
AsString(s) == [kind |-> "str", value |-> <<0, 0>>, text |-> s]

\* Lines 222-225: the string recorded for the modified_time argument.
ModifiedTimeStr(modified_time) ==
    IF modified_time.kind = "datetime"
      THEN IsoFormat([sec |-> modified_time.value[1], micro |-> modified_time.value[2]])
      ELSE modified_time.text

\* A comparison that misses a change of the size.
HasFileChangedByTimeOnly(states, file_path, size, modified_time, hash_md5) ==
    IF file_path \notin DOMAIN states THEN TRUE
    ELSE IF states[file_path].modified_time # ModifiedTimeStr(modified_time) THEN TRUE
    ELSE FALSE

\* Lines 188-208: has_file_changed, over the dictionary it reads.
HasFileChanged(states, file_path, size, modified_time, hash_md5) ==
    IF file_path \notin DOMAIN states THEN TRUE
    ELSE IF states[file_path].size # size THEN TRUE
    ELSE IF states[file_path].modified_time # ModifiedTimeStr(modified_time) THEN TRUE
    ELSE IF hash_md5 # 0 /\ states[file_path].hash_md5 # 0
              /\ states[file_path].hash_md5 # hash_md5 THEN TRUE
    ELSE FALSE

\* Lines 175-208: a call of has_file_changed with a datetime; the dictionary
\* is read only.
HasFileChangedCall ==
    /\ \E file_path \in TrackedPaths, size \in Sizes, dt \in DateTimes, hash_md5 \in Hashes :
         tcall' = [op |-> "has_file_changed", file_path |-> file_path, size |-> size,
                   modified_time |-> AsDateTime(dt), hash_md5 |-> hash_md5,
                   result |-> HasFileChanged(file_states, file_path, size,
                                             AsDateTime(dt), hash_md5)]
    /\ UNCHANGED file_states
    /\ UNCHANGED notrk

\* Lines 227-236: the FileInfo that replaces the entry of the path; its
\* last_backup is the text of datetime.now(), which no call reads.
FileInfo(file_path, size, modified_time, hash_md5, destination) ==
    [path |-> file_path, size |-> size, modified_time |-> ModifiedTimeStr(modified_time),
     hash_md5 |-> hash_md5, last_backup |-> "now", backup_destination |-> destination]

\* Lines 210-236: update_file_info with a datetime or a string, at any time.
UpdateFileInfo ==
    /\ \E file_path \in TrackedPaths, size \in Sizes, hash_md5 \in Hashes,
          modified_time \in {AsDateTime(dt) : dt \in DateTimes}
                              \cup {AsString(s) : s \in TimeStrings},
          destination \in Destinations :
         /\ file_states' = [q \in DOMAIN file_states \cup {file_path} |->
                              IF q = file_path
                                THEN FileInfo(file_path, size, modified_time, hash_md5,
                                              destination)
                                ELSE file_states[q]]
         /\ tcall' = [op |-> "update_file_info", file_path |-> file_path, size |-> size,
                      modified_time |-> modified_time, hash_md5 |-> hash_md5,
                      result |-> FALSE]
    /\ UNCHANGED notrk

\* Lines 24-33: a tracker whose file does not exist, or cannot be loaded.
TrackerInit ==
    /\ WalkIdle
    /\ TreeIdle
    /\ PipelineIdle
    /\ DescendIdle
    /\ BackoffIdle
    /\ KeysIdle
    /\ StampIdle
    /\ AuthIdle
    /\ DownloadIdle
    /\ RateIdle
    /\ ConvergeIdle
    /\ JobIdle
    /\ LoadIdle
    /\ TrackerIdle

TrackerNext ==
    \/ HasFileChangedCall
    \/ UpdateFileInfo

TrackerSpec == TrackerInit /\ [][TrackerNext]_vars

(***************************************************************************)
(* The time stored with a cursor.  The last page of a delta paging carries *)
(* the delta link (lines 1191-1196), the producer takes it from the marker *)
(* (698-702) and _save_delta_token stores it with the time of the clock at *)
(* the save (283-297); the run after it has the cursor answered 410 and    *)
(* walks the drive for the files modified after that time (1072-1079).     *)
(* One file of the target is modified at any moment.  One clock stands for *)
(* the clock of the server and the clock of the machine.                   *)
(***************************************************************************)
\* The clock runs up to this time; two units make a second.
MaxClock == 6

\* Time passes.
StampTick ==
    /\ spc \in {"paging", "marker", "saved"}
    /\ now < MaxClock
    /\ now' = now + 1
    /\ UNCHANGED <<file_mtime, link_issued, saved_time, spc, fb_listed>>
    /\ UNCHANGED nostamp

\* The file is modified at the source: its lastModifiedDateTime is the time
\* of the clock.
StampModify ==
    /\ spc \in {"paging", "marker", "saved"}
    /\ file_mtime # now
    /\ file_mtime' = now
    /\ UNCHANGED <<now, link_issued, saved_time, spc, fb_listed>>
    /\ UNCHANGED nostamp

\* Lines 1191-1196: the server answers the last page with the delta link,
\* which stands for the state of the drive at that moment; it is yielded as
\* the marker.
LastPage ==
    /\ spc = "paging"
    /\ link_issued' = now
    /\ spc' = "marker"
    /\ UNCHANGED <<now, file_mtime, saved_time, fb_listed>>
    /\ UNCHANGED nostamp

\* Line 283: current_time = datetime.utcnow().isoformat() + 'Z'.
CurrentTime == now

\* Lines 707-710 and 283-297: the cursor file is put with the delta link and
\* with last_backup_time = current_time; a put that raises is logged (line
\* 302) and leaves no cursor file.
SaveDeltaToken ==
    /\ spc = "marker"
    /\ \E written \in BOOLEAN :
         IF written
           THEN saved_time' = CurrentTime /\ spc' = "saved"
           ELSE saved_time' = saved_time /\ spc' = "unsaved"
    /\ UNCHANGED <<now, file_mtime, link_issued, fb_listed>>
    /\ UNCHANGED nostamp

\* Lines 672-674, 1068-1079 and 1239-1263 / 1274-1302: the next run loads the
\* cursor file, its delta link is answered 410 and the fallback walk lists
\* the file if the server, evaluating $filter, finds it later than the
\* filter time, or, after a 400, if it is not "file_modified <=
\* modified_after".
StampFallback ==
    /\ spc = "saved"
    /\ \E supported \in BOOLEAN :
         fb_listed' = IF supported THEN file_mtime > FilterTime(saved_time)
                      ELSE ~(file_mtime <= saved_time)
    /\ spc' = "fellback"
    /\ UNCHANGED <<now, file_mtime, link_issued, saved_time>>
    /\ UNCHANGED nostamp

\* The last page of the walk of a target is about to be requested; the file
\* was last modified before.
StampInit ==
    /\ WalkIdle
    /\ TreeIdle
    /\ PipelineIdle
    /\ DescendIdle
    /\ BackoffIdle
    /\ KeysIdle
    /\ AuthIdle
    /\ DownloadIdle
    /\ RateIdle
    /\ ConvergeIdle
    /\ JobIdle
    /\ LoadIdle
    /\ TrackerIdle
    /\ now = 1
    /\ file_mtime = 0
    /\ link_issued = 0
    /\ saved_time = 0
    /\ spc = "paging"
    /\ fb_listed = FALSE

StampNext ==
    \/ StampTick
    \/ StampModify
    \/ LastPage
    \/ SaveDeltaToken
    \/ StampFallback

StampSpec == StampInit /\ [][StampNext]_vars

(***************************************************************************)
(* The path and the key of one file.  A text is the sequence of its        *)
(* parts: "/" and the names between the slashes.  The delta route builds   *)
(* the path from parentReference.path (lines 1138-1151), the timestamp     *)
(* fallback from the names of the folders it descends (1253-1254, 1364);   *)
(* for a team drive both go through stream_sharepoint_drive_files (904-    *)
(* 917).  A worker builds the key of the head request (363-364) and the    *)
(* key of the put (1484-1485) from the path of the file_info it dequeued.  *)
(***************************************************************************)
\* The folder that holds an item of the drive.
Parent(item) == CHOOSE folder \in SubFolders \cup {"root"} : item \in Children(folder)

\* user_prefix (line 832) or the name of a drive (line 898).
PathPrefixes == {<<"u">>, <<"Documents">>}
\* destination_config.prefix.
DestPrefixes == {<<>>, <<"/">>, <<"backups", "/">>, <<"/", "backups", "/">>}

\* f"{a}/{b}"
Slash(a, b) == a \o <<"/">> \o b

RECURSIVE ParentReferencePath(_)
\* parentReference.path of the children of a folder, as the server gives it:
\* "/drive/root:" followed by the names of the folders down to it.
ParentReferencePath(folder) ==
    IF folder = "root" THEN <<"/", "drive", "/", "root:">>
    ELSE ParentReferencePath(Parent(folder)) \o <<"/", folder>>

\* s starts with the text t.
StartsWith(s, t) == Len(s) >= Len(t) /\ SubSeq(s, 1, Len(t)) = t

RECURSIVE Replace(_, _)
\* s.replace(old, ''): every occurrence of old is removed.
Replace(s, old) ==
    IF s = <<>> THEN <<>>
    ELSE IF StartsWith(s, old) THEN Replace(SubSeq(s, Len(old) + 1, Len(s)), old)
    ELSE <<Head(s)>> \o Replace(Tail(s), old)

RECURSIVE LStrip(_)
\* s.lstrip('/')
LStrip(s) == IF s # <<>> /\ Head(s) = "/" THEN LStrip(Tail(s)) ELSE s

RECURSIVE RStrip(_)
\* The trailing half of s.strip('/').
RStrip(s) == IF s # <<>> /\ s[Len(s)] = "/" THEN RStrip(SubSeq(s, 1, Len(s) - 1)) ELSE s

\* s.strip('/')
Strip(s) == RStrip(LStrip(s))

\* Lines 1138-1151: full_path of an item of a delta page.
DeltaFullPath(prefix, item) ==
    LET name == <<item>>
        parent_path == Strip(Replace(ParentReferencePath(Parent(item)),
                                     <<"/", "drive", "/", "root:">>))
    IN IF prefix # <<>>
         THEN IF parent_path # <<>> THEN Slash(Slash(prefix, parent_path), name)
              ELSE Slash(prefix, name)
         ELSE IF parent_path # <<>> THEN Slash(parent_path, name)
              ELSE name

RECURSIVE RecursiveFullPath(_)
\* Lines 1253 and 1364: full_path = f"{path}/{name}" if path else name, where
\* path is the full_path of the folder that is being listed ("" at the root).
RecursiveFullPath(item) ==
    IF Parent(item) = "root" THEN <<item>>
    ELSE Slash(RecursiveFullPath(Parent(item)), <<item>>)

\* Lines 1254 and 1268: 'path' of a file_info of _stream_onedrive_files_recursive.
OneDriveRecursivePath(user_prefix, item) == Slash(user_prefix, RecursiveFullPath(item))

\* Line 1378: 'path' of a file_info of _stream_sharepoint_files_recursive,
\* which is called with path = "" (line 982).
SharePointRecursivePath(item) == RecursiveFullPath(item)

\* Lines 915-917: stream_sharepoint_drive_files puts the name of the drive
\* before the path of every file_info that _stream_sharepoint_files_delta
\* yields, those of the fallback (lines 1078-1079) included.
FullS3Path(drive_name, path) == Slash(drive_name, path)

\* The path the producer receives for an item yielded by the delta route:
\* lines 831-835 and 954-962 for a user (path_prefix = user_prefix), lines
\* 904-917 and 987-995 for a team drive (path_prefix = drive_name).
DeltaRoutePath(type, prefix, item) ==
    IF type = "users" THEN DeltaFullPath(prefix, item)
    ELSE FullS3Path(prefix, DeltaFullPath(prefix, item))

\* The same for an item yielded by the fallback: lines 947-951 for a user,
\* 980-984 and 904-917 for a team drive.
FallbackRoutePath(type, prefix, item) ==
    IF type = "users" THEN OneDriveRecursivePath(prefix, item)
    ELSE FullS3Path(prefix, SharePointRecursivePath(item))

\* Lines 1122-1181: a delta page reports the item; it is yielded if it has
\* the facet "file".
StreamDelta ==
    /\ kpc = "start"
    /\ delta_path' = IF kitem \in DriveFiles
                       THEN DeltaRoutePath(resource_type, path_prefix, kitem)
                       ELSE <<>>
    /\ kpc' = "fallback"
    /\ UNCHANGED <<resource_type, path_prefix, kitem, fallback_path, dest_prefix,
                   key_path, head_key, put_key>>
    /\ UNCHANGED nokeys

\* Lines 1229-1273 / 1341-1383: the fallback walk lists the folder of the
\* item, if it is within max_depth, and yields the item.
StreamRecursive ==
    /\ kpc = "fallback"
    /\ fallback_path' = IF kitem \in DriveFiles /\ ParentDepth(kitem) > MaxDepth
                          THEN <<>>
                          ELSE FallbackRoutePath(resource_type, path_prefix, kitem)
    /\ kpc' = "queued"
    /\ UNCHANGED <<resource_type, path_prefix, kitem, delta_path, dest_prefix,
                   key_path, head_key, put_key>>
    /\ UNCHANGED nokeys

\* A key that is built without stripping the slashes.
S3KeyUnstripped(prefix, path) == prefix \o path

\* Lines 363-364: s3_key = f"{prefix}{file_path}".lstrip('/')
HeadS3Key(prefix, path) == LStrip(prefix \o path)

\* Lines 1484-1485: s3_key = f"{prefix}{file_path}".lstrip('/')
PutS3Key(prefix, path) == LStrip(prefix \o path)

\* Lines 587-592 and 363-379: a worker dequeues the file_info of one of the
\* routes and makes the head request.
WorkerHead ==
    /\ kpc = "queued"
    /\ \E path \in {delta_path, fallback_path} \ {<<>>} :
         /\ key_path' = path
         /\ head_key' = HeadS3Key(dest_prefix, path)
    /\ kpc' = "checked"
    /\ UNCHANGED <<resource_type, path_prefix, kitem, delta_path, fallback_path,
                   dest_prefix, put_key>>
    /\ UNCHANGED nokeys

\* Lines 614, 1439-1446 and 1484-1485, 1563-1598: the object is not stored;
\* the worker downloads the file and puts it.
WorkerPut ==
    /\ kpc = "checked"
    /\ put_key' = PutS3Key(dest_prefix, key_path)
    /\ kpc' = "done"
    /\ UNCHANGED <<resource_type, path_prefix, kitem, delta_path, fallback_path,
                   dest_prefix, key_path, head_key>>
    /\ UNCHANGED nokeys

\* Any item of a personal or of a team drive, and any destination prefix.
PathInit ==
    /\ WalkIdle
    /\ TreeIdle
    /\ PipelineIdle
    /\ DescendIdle
    /\ BackoffIdle
    /\ AuthIdle
    /\ DownloadIdle
    /\ RateIdle
    /\ ConvergeIdle
    /\ JobIdle
    /\ LoadIdle
    /\ TrackerIdle
    /\ StampIdle
    /\ resource_type \in {"users", "drives"}
    /\ path_prefix \in PathPrefixes
    /\ kitem \in DriveFiles \cup Packages
    /\ delta_path = <<>>
    /\ fallback_path = <<>>
    /\ dest_prefix \in DestPrefixes
    /\ key_path = <<>>
    /\ head_key = <<>>
    /\ put_key = <<>>
    /\ kpc = "start"

PathNext ==
    \/ StreamDelta
    \/ StreamRecursive
    \/ WorkerHead
    \/ WorkerPut

PathSpec == PathInit /\ [][PathNext]_vars

(***************************************************************************)
(* The requests of the delta pages with their 429 retry loop:              *)
(* _stream_delta_files, lines 1036-1056 and the status handling after it.  *)
(* The source answers every request in any way it can.                     *)
(***************************************************************************)
\* The status codes of a page response that are followed here (a 401 is
\* followed by Walker).
PageStatuses == {200, 429, 500}

\* The Retry-After header a response with this status can carry.
HeadersOf(status) == IF status = 429 THEN RetryAfters ELSE {NoRetryAfter}

\* Line 1041: requests.get of the page.  A 429 enters the retry loop with
\* retry_delay = 1 (lines 1044-1047).
PageGet ==
    /\ bpc = "get"
    /\ \E st \in PageStatuses : \E ra \in HeadersOf(st) :
         /\ page_status' = st
         /\ page_retry_after' = ra
         /\ IF st = 429
              THEN bpc' = "retry" /\ page_delay' = 1 /\ page_retry' = 0
              ELSE bpc' = "status" /\ UNCHANGED <<page_delay, page_retry>>
    /\ UNCHANGED <<page_no, page_slept>>
    /\ UNCHANGED noback

\* Lines 1047-1055: one round of "for retry in range(max_retries)":
\* time.sleep(retry_delay), the request again, break on a 200 and
\* "retry_delay *= 2" otherwise.  No header of the response is read.
PageRetry ==
    /\ bpc = "retry"
    /\ page_slept' = page_delay
    /\ \E st \in PageStatuses : \E ra \in HeadersOf(st) :
         /\ page_status' = st
         /\ page_retry_after' = ra
         /\ IF st = 200
              THEN bpc' = "status" /\ UNCHANGED <<page_delay, page_retry>>
              ELSE /\ page_delay' = page_delay * 2
                   /\ page_retry' = page_retry + 1
                   /\ bpc' = IF page_retry + 1 = MaxRetries THEN "status" ELSE "retry"
    /\ UNCHANGED page_no
    /\ UNCHANGED noback

\* Lines 1066-1114 and 1184-1198: a 200 is processed and the next page, if
\* any, is requested; any other status ends the walk.
PageStatus ==
    /\ bpc = "status"
    /\ IF page_status = 200
         THEN \/ page_no < MaxPages /\ page_no' = page_no + 1 /\ bpc' = "get"
              \/ page_no' = page_no /\ bpc' = "done"
         ELSE page_no' = page_no /\ bpc' = "stopped"
    /\ UNCHANGED <<page_status, page_retry_after, page_delay, page_retry, page_slept>>
    /\ UNCHANGED noback

\* The first page is about to be requested.
BackoffInit ==
    /\ PipelineIdle
    /\ DescendIdle
    /\ WalkIdle
    /\ TreeIdle
    /\ stop_event = FALSE
    /\ AuthIdle
    /\ DownloadIdle
    /\ RateIdle
    /\ ConvergeIdle
    /\ JobIdle
    /\ LoadIdle
    /\ TrackerIdle
    /\ StampIdle
    /\ KeysIdle
    /\ page_no = 1
    /\ bpc = "get"
    /\ page_status = 0
    /\ page_retry_after = NoRetryAfter
    /\ page_delay = 0
    /\ page_retry = 0
    /\ page_slept = 0

BackoffNext ==
    \/ PageGet
    \/ PageRetry
    \/ PageStatus

BackoffSpec == BackoffInit /\ [][BackoffNext]_vars


(***************************************************************************)
(* Claims about the pipeline                                               *)
(***************************************************************************)
\* No entry of the queue is a file.
NoFileQueued == \A i \in 1..Len(file_queue) : file_queue[i] = SENTINEL

\* No worker is between the dequeue of a file and the end of its update_stats.
NoWorkerBusy == \A w \in Workers : wpc[w] \in {"get", "exit"}

\* C1: a step that writes the cursor of the target is taken only when the
\* terminal marker has been captured and the pool has drained: no file is in the
\* queue, no worker is in the middle of a file, and every file the producer
\* enqueued has been handled (skipped, uploaded or recorded as an error).
C1_CursorWrittenAfterDrain ==
    [][cursor' # cursor =>
          /\ final_delta_token # NoToken
          /\ NoFileQueued
          /\ NoWorkerBusy
          /\ handled = 1..emitted]_vars

\* C3: every enqueued file is dequeued by exactly one worker, and once all the
\* workers of the target have exited no file is left in the queue.
C3_EveryFileConsumedOnce ==
    /\ \A f \in Files : taken[f] <= 1
    /\ AllWorkersExited /\ ppc \in {"join", "done"} => NoFileQueued

\* C4: the pipeline of a target terminates: as long as the producer has not
\* passed the wait for its workers, some thread can take a step (the producer
\* is not blocked for ever in add_file or signal_done).
C4_PipelineNeverStuck == ppc # "done" => ENABLED Next

\* C5: once the workers have exited, files_processed equals the number M of
\* files they processed, and so does files_uploaded + files_skipped + the number
\* of recorded errors.
C5_CountersAddUp ==
    AllWorkersExited =>
        /\ files_processed = Cardinality(handled)
        /\ files_uploaded + files_skipped + errors = Cardinality(handled)

\* Worker w leaves the head-check of a file whose key holds an object stored
\* with the file's incoming modified time.
ChecksStoredFile(w) ==
    /\ wpc[w] = "check"
    /\ wpc'[w] # "check"
    /\ dest[wfile[w]] = SrcMtime(wfile[w])

\* The file worker w holds is marked skipped and the worker goes on to
\* update_stats without a download or a put: the destination is untouched.
SkipsFile(w) ==
    /\ wout'[w] = "skipped"
    /\ wpc'[w] = "stat_p_load"
    /\ dest' = dest

C7_SecondRunUploadsNothing ==
    run = 2 /\ ppc = "done" /\ ~dry_run =>
        /\ files_uploaded = 0
        /\ dest = destAfter1
\* C12: once the stop event of the target's queue manager is set, the producer
\* takes no further file from the walker to enqueue it (an add_file call under
\* way may complete) and the cursor of the target is not written; when the run
\* is over every worker has exited.
C12_CancelStopsProducerAndCursor ==
    [][stop_event => /\ ~(ppc = "stream" /\ ppc' = "add")
                     /\ cursor' = cursor
                     /\ (ppc' = "done" => AllWorkersExited')]_vars

C18_FailedFileUploadedByLaterRun ==
    (run = 2 /\ ppc = "done") => \A f \in 1..emittedFirst : dest[f] = SrcMtime(f)

(***************************************************************************)
(* Claims about the delta walker                                           *)
(***************************************************************************)
\* C2: when no response of the run carried the terminal delta link (a page
\* request failed, raised, or the process was killed, at any page boundary),
\* the cursor persisted for the target is the cursor the run started from.
C2_CursorKeptWithoutDeltaLink == ~sawDeltaLink => cursor = delta_token

\* C2, the case: a run from a persisted cursor received a page, then failed on
\* the next request, and went past the save step.
C2_Witness ==
    /\ ppc = "signal"
    /\ ~dry_run
    /\ ~sawDeltaLink
    /\ delta_token = PriorToken
    /\ page >= 1
    /\ response.status = 500

C10_WalkReachesDone == <>(wkpc \in {"Done", "killed"})

\* C11: a page with a next link makes the walker request the next page; a page
\* with a delta link makes it yield the marker carrying that delta link and
\* stop.  A walk yields at most one marker and nothing after it, what it hands
\* to add_file is never a marker, and the cursor persisted by the run is a
\* delta link, never a next link.
C11_MarkerOnceLastAndDeltaLink ==
    [][/\ (wkpc = "status" /\ wkpc' # "killed" /\ response.status = 200
              /\ response.link = "next")
            => (wkpc' = "get" /\ endpoint' = "next" /\ markers' = markers)
       /\ (wkpc = "status" /\ wkpc' # "killed" /\ response.status = 200
              /\ response.link = "delta")
            => (markers' = <<response.token>> /\ wkpc' = "Done")
       /\ markers # <<>>
            => (markers' = markers /\ yielded' = yielded /\ wkpc' \in {"Done", "killed"})
       /\ \A i \in 1..Len(markers') : markers'[i] \in DeltaLinks
       /\ \A y \in yielded' : y[1] \in {"delta", "fallback"}
       /\ final_delta_token' \in DeltaLinks \cup {NoToken}
       /\ cursor' \in DeltaLinks \cup {delta_token}]_vars

\* C11, the case: a walk followed a next link to the page with the delta link,
\* yielded the marker, and the run persisted it.
C11_Witness ==
    /\ route = "delta"
    /\ page = MaxPages
    /\ Len(markers) = 1
    /\ ppc = "signal"
    /\ cursor = markers[1]
    /\ cursor # delta_token

(***************************************************************************)
(* Claims about the timestamp fallback                                     *)
(***************************************************************************)
\* C9: the fallback walk with last_backup_time = T emits every file within the
\* depth cap whose modified time is later than T, whether or not the folders
\* above it were modified after T.
C9_FallbackEmitsEveryModifiedFile ==
    fpc = "done" =>
        \A f \in DriveFiles :
            (lastModified[f] > last_backup_time /\ ParentDepth(f) <= MaxDepth) => f \in found

(***************************************************************************)
(* Claims about the token source                                           *)
(***************************************************************************)
\* C13: when the producer and the workers call get_access_token concurrently,
\* with or without force_refresh, at most one token refresh is in flight at
\* any time.
C13_OneRefreshInFlight == Cardinality(Refreshing) <= 1

(***************************************************************************)
(* Claims about the requests to the source                                 *)
(***************************************************************************)
\* C14: when the server answers 429 to every attempt of a source request (a
\* delta page request or a content download), the request is attempted at most
\* 5 times in total, and then the failure is surfaced: the walker stops
\* without a terminal marker, the download returns as a failed download.
C14_FiveAttemptsUnder429 ==
    /\ throttled <= MaxRetries
    /\ dthrottled <= MaxRetries
    /\ (throttled >= MaxRetries /\ wkpc = "Done") => markers = <<>>
    /\ dthrottled = MaxRetries => (dpc = "returned" /\ dresult = "download")

\* C15: no source request of the walker and no file of a worker triggers more
\* than one forced refresh of the token.
C15_OneForcedRefresh ==
    /\ forced <= 1
    /\ dforced <= 1

(***************************************************************************)
(* Claims about a rate-limited walk                                        *)
(***************************************************************************)
\* C16: if the first k delta requests of a walk are answered 429, k within the
\* retry budget, and the following succeed, the run emits the files and the
\* marker of the run without 429s and its totals are the same: every file of
\* the page is put on the queue and processed.
C16_SameTotalsAfter429 ==
    /\ (throttle <= MaxRetries /\ rsent = MaxFiles) => rpc \in {"page", "done"}
    /\ (throttle <= MaxRetries /\ rpc = "done") => (rsent = MaxFiles /\ rprocessed = MaxFiles)

(***************************************************************************)
(* Claims about a file modified during a walk                              *)
(***************************************************************************)
\* C19: if a file is modified while the walk is in progress (delta paging, or
\* fallback walk followed by the fresh delta), then after one further complete
\* run with no more source changes the object of the file carries the latest
\* modified time.
C19_LatestVersionAfterFurtherRun ==
    (crun = 2 /\ cpc = "done") => cstored = srcVersion

(***************************************************************************)
(* Claims about a job                                                      *)
(***************************************************************************)
\* C20: a job with a source in which a target aborted (its walker stopped on a
\* page request that failed past its retries, or on a token that could not be
\* acquired) returns with status 'failed', not 'completed'.
C20_AbortedTargetFailsJob ==
    (jpc = "returned" /\ aborted # {}) => job_status = "failed"

\* C21: a failure in one source of a job (unknown source name, discovery
\* failure, aborted target) does not stop its sibling sources.  No step of a
\* source ends the job or changes its status; a source that cannot be looked
\* up is recorded and the loop goes on; every source that can is handed to
\* _process_source; the counters of a source are added to those of the job
\* when the source ends, whatever failed in it; and a job whose destination
\* is known returns only after the last source.
C21_FailedSourceDoesNotStopSiblings ==
    /\ [][/\ (jpc \in {"discover", "target", "checkpoint"})
                => (jpc' # "returned" /\ job_status' = job_status /\ source_idx' >= source_idx)
          /\ (jpc = "source" /\ source_idx <= NSources)
                => \/ jpc' = "discover" /\ called' = called \cup {source_idx}
                   \/ jpc' = "source" /\ source_idx' = source_idx + 1
                        /\ job_errors' = job_errors + 1
          /\ (jpc = "checkpoint")
                => /\ job_uploaded' = job_uploaded + src_uploaded
                   /\ job_errors' = job_errors + src_errors
                   /\ source_idx' = source_idx + 1
                   /\ jpc' = "source"
          /\ (jpc # "checkpoint") => job_uploaded' = job_uploaded]_vars
    /\ []((jpc = "returned" /\ job_status = "completed") => source_idx = NSources + 1)

\* A job whose first source had an aborted target and whose last source was
\* processed and uploaded after it.
C21_Witness ==
    /\ jpc = "checkpoint"
    /\ source_idx = NSources
    /\ 1 \in aborted
    /\ NSources \notin aborted
    /\ src_uploaded >= 1
    /\ called = 1..NSources

\* C22: the per-source checkpoint {source}_last_backup.json is written at the
\* end of a source run only if at least one file was uploaded in that run: the
\* only step that writes a checkpoint is the end of the run of the source it
\* belongs to, and the run then counts at least one uploaded file.
C22_CheckpointOnlyAfterUpload ==
    [][checkpoints' # checkpoints
         => /\ jpc = "checkpoint"
            /\ src_uploaded > 0
            /\ checkpoints' = checkpoints \cup {source_idx}]_vars

\* A job in which one source uploaded and wrote its checkpoint and another
\* source, with targets, ended without an upload and without a checkpoint.
C22_Witness ==
    /\ jpc = "returned"
    /\ called = 1..NSources
    /\ job_uploaded >= 1
    /\ checkpoints # {}
    /\ checkpoints # called

\* C23: within a source run the per-source checkpoint is written strictly
\* after every target of the source has finished and after every target cursor
\* written in that run: the checkpoint is put when the loop over the targets
\* has gone through all of them, and no cursor of a source is put after the
\* checkpoint of that source.
C23_CheckpointAfterTargetsAndCursors ==
    /\ [][(Len(writes') > Len(writes) /\ writes'[Len(writes')][1] = "checkpoint")
            => /\ jpc = "checkpoint"
               /\ target_idx = ntargets + 1
               /\ writes'[Len(writes')][2] = source_idx]_vars
    /\ [](\A i, j \in DOMAIN writes :
            (i < j /\ writes[i][1] = "checkpoint" /\ writes[j][1] = "cursor")
              => writes[j][2] # writes[i][2])

\* A source with two targets the cursors of which were both written, followed
\* by the checkpoint of the source.
C23_Witness ==
    /\ Len(writes) >= 3
    /\ writes[1] = <<"cursor", 1, 1>>
    /\ writes[2] = <<"cursor", 1, 2>>
    /\ writes[3] = <<"checkpoint", 1>>

\* C24: when a source has no target after the allow-list is applied, the job
\* completes with the status of a successful job, the source adds no upload,
\* and neither a cursor nor the checkpoint of the source is written.
C24_NoTargetsNoWrites ==
    /\ [][(jpc \in {"target", "checkpoint"} /\ ntargets = 0)
            => /\ writes' = writes
               /\ checkpoints' = checkpoints
               /\ job_uploaded' = job_uploaded
               /\ jpc' \in {"checkpoint", "source"}]_vars
    /\ []((jpc = "returned" /\ source_idx > NSources) => job_status = "completed")

\* A job all sources of which were found without a target, returned.
C24_Witness ==
    /\ jpc = "returned"
    /\ called = 1..NSources
    /\ job_errors = 0
    /\ ntargets = 0
    /\ job_uploaded = 0
    /\ writes = <<>>
    /\ job_status = "completed"

\* C25: when the cursor file of a target is missing, malformed or lacks a
\* delta_token, loading it yields no prior cursor and the walker starts a
\* fresh walk at the root /delta endpoint; the run is not aborted by the bad
\* checkpoint.  The load of such a file returns None without raising, the
\* walker is started on the root endpoint without a token, and it never
\* requests the URL of a cursor nor takes the timestamp fallback.
BadCursorFile ==
    \/ cursor_file.state \in {"missing", "malformed"}
    \/ cursor_file.state = "json" /\ cursor_file.delta_token = NoToken

C25_BadCursorStartsFreshWalk ==
    /\ [][(BadCursorFile /\ lpc = "start")
            => /\ lpc' = "loaded"
               /\ delta_info' = NoDeltaInfo
               /\ wkpc' = "get"
               /\ delta_token' = NoToken
               /\ endpoint' = "root"]_vars
    /\ [](BadCursorFile => (lpc # "raised" /\ endpoint # "cursor" /\ route # "fallback"))

\* A cursor file with a last_backup_time and no delta_token, loaded, and the
\* walk started from it has ended with its marker.
C25_Witness ==
    /\ cursor_file.state = "json"
    /\ cursor_file.delta_token = NoToken
    /\ cursor_file.last_backup_time
    /\ lpc = "loaded"
    /\ wkpc = "Done"
    /\ Len(markers) = 1
    /\ rootRequests >= 1

DeltaFileIds ==
    {i.id : i \in {j \in UNION {PageItems(p) : p \in 1..MaxPages} :
                      j.file /\ ~j.folder /\ ~j.deleted}}

\* C27, the delta paging: every item the main loop of the walker yields is a
\* file that is not marked deleted.
C27_DeltaEmitsOnlyFiles ==
    \A y \in yielded : y[1] = "delta" => y[2] \in DeltaFileIds

\* C27: neither the delta paging nor the fallback walk ever emits an item
\* marked deleted or a folder: every FileChange is a non-deleted file.
C27_OnlyFilesEmitted ==
    /\ C27_DeltaEmitsOnlyFiles
    /\ fpc = "done" => found \subseteq DriveFiles

\* C28: every file object written by an upload, on the first put and on a
\* retried put alike, carries source-modified-time equal to the modified_time
\* of the FileChange that produced it, original-path-encoded equal to the
\* base64 of the UTF-8 full_path, source = 'onedrive-backup' and encoding =
\* 'base64-utf8'; and a file that a worker counts as uploaded has such an
\* object at its key.
C28_PutsCarryMetadata ==
    \A i \in DOMAIN put_meta :
        /\ put_meta[i].source_modified_time = dfile.modified_time
        /\ put_meta[i].original_path_encoded = B64Encode(Utf8(dfile.path))
        /\ put_meta[i].source = "onedrive-backup"
        /\ put_meta[i].encoding = "base64-utf8"

C30_BodyNeverBuffered == buffered <= ChunkSize

C31_ChangeDetection ==
    /\ []((tcall.op = "has_file_changed" /\ tcall.file_path \notin DOMAIN file_states)
            => tcall.result)
    /\ [][(/\ tcall.op = "update_file_info"
            /\ tcall.modified_time.kind = "datetime"
            /\ tcall'.op = "has_file_changed"
            /\ tcall'.file_path = tcall.file_path)
           => /\ (tcall'.size = tcall.size /\ tcall'.modified_time = tcall.modified_time
                    /\ tcall'.hash_md5 = tcall.hash_md5) => ~tcall'.result
              /\ (tcall'.size # tcall.size \/ tcall'.modified_time # tcall.modified_time)
                    => tcall'.result]_vars
    /\ [][IF tcall'.op = "update_file_info"
            THEN \A q \in TrackedPaths \ {tcall'.file_path}, size \in Sizes,
                    dt \in DateTimes, hash_md5 \in Hashes :
                   HasFileChanged(file_states', q, size, AsDateTime(dt), hash_md5)
                     = HasFileChanged(file_states, q, size, AsDateTime(dt), hash_md5)
            ELSE file_states' = file_states]_vars

\* Both paths are recorded and the tracker has just answered that a file has
\* not changed.
C31_Witness ==
    /\ DOMAIN file_states = TrackedPaths
    /\ tcall.op = "has_file_changed"
    /\ tcall.hash_md5 # 0
    /\ ~tcall.result

\* C32: the last_backup_time stored with a cursor is never later than the
\* moment its delta link was issued, so that the fallback walk filtered on it
\* lists every file that was modified after the issue of the link.
C32_StampNotAfterLink ==
    /\ (saved_time # 0 => saved_time <= link_issued)
    /\ ((spc = "fellback" /\ file_mtime > link_issued) => fb_listed)

\* C33: for a file that the delta route and the timestamp fallback both
\* emit, the destination path of the two file_info is the same, for a
\* personal drive and for a team drive.
C33_SamePathOnBothRoutes ==
    (kpc \notin {"start", "fallback"} /\ delta_path # <<>> /\ fallback_path # <<>>)
      => delta_path = fallback_path

\* C39: for every file_info a worker handles, the key of the head request
\* and the key of the put are the same text: the prefix of the destination
\* followed by the path of the file_info, without the slashes it would begin
\* with.
C39_HeadKeyIsPutKey ==
    /\ kpc \in {"checked", "done"}
          => /\ head_key = LStrip(dest_prefix \o key_path)
             /\ Head(head_key) # "/"
    /\ kpc = "done" => put_key = head_key

\* The file of a folder has been put below a prefix that begins with a slash.
C39_Witness ==
    /\ kpc = "done"
    /\ dest_prefix = <<"/", "backups", "/">>
    /\ kitem = "f1"
    /\ put_key = <<"backups", "/", "u", "/", "a", "/", "f1">>

\* C34: in a dry run the destination is left unchanged (no file body is put
\* and no cursor is written; no checkpoint and no cursor is put by the job),
\* while every file that is not skipped is counted as would-upload and the
\* worker advances to the next file.
\* The frame of a dry run of a target: no worker reaches the download and the
\* put, no object changes and the cursor stays as it is.
C34_DryRunFrame ==
    /\ [](dry_run => \A w \in Workers : wpc[w] # "upload")
    /\ [][dry_run => (dest' = dest /\ cursor' = cursor)]_vars
    /\ [][\A w \in Workers :
            (dry_run /\ wpc[w] = "check" /\ wpc'[w] = "stat_p_load")
              => wout'[w] = (IF ChecksStoredFile(w) /\ whead'[w] = "ok"
                               THEN "skipped" ELSE "uploaded")]_vars

\* The frame of a dry run of a job: it puts no cursor and no checkpoint.
C34_DryJobWritesNothing == job_dry_run => (writes = <<>> /\ checkpoints = {})

C34_DryRunLeavesDestination ==
    /\ C34_DryRunFrame
    /\ []((dry_run /\ AllWorkersExited)
            => files_uploaded + files_skipped = Cardinality(handled))
\* C35: when a put fails with an expired-credential error the worker
\* refreshes the credentials and retries the put once with the same key and
\* metadata: the step that leaves the handler of the refused put is one more
\* upload_fileobj call carrying the metadata of the first.
C35_RefusedPutIsRetriedOnce ==
    [][(dpc = "refresh" /\ dpc' # "refresh")
          => /\ puts' = puts + 1
             /\ put_meta' = Append(put_meta, put_meta[Len(put_meta)])]_vars

\* The wait the retry policy asks for before retry number n (from 0) of a
\* request answered 429 with this Retry-After header: the number of seconds of
\* the header, and 1 second doubled n times, capped at 60, without a header.
PolicyWait(retry_after, n) ==
    IF retry_after = NoRetryAfter THEN MinOf(2 ^ n, 60) ELSE retry_after

\* C36: the wait before a retry of a 429-answered delta page request is the
\* Retry-After value when the response carries a number of seconds, and
\* otherwise follows the exponential backoff from 1 second, doubling, capped
\* at 60 seconds.
C36_WaitHonoursRetryAfter ==
    [][(bpc = "retry" /\ page_retry_after # DateRetryAfter)
          => page_slept' = PolicyWait(page_retry_after, page_retry)]_vars

\* C37: the queue of a target never holds more than 2N entries, files and
\* sentinels together, and every entry is a file record or the sentinel; a
\* producer that finds the queue full, with a file or a sentinel to put, stays
\* where it is, its entry in hand, until a worker has dequeued.
C37_QueueBounded ==
    /\ [](/\ Len(file_queue) <= 2 * NWorkers
           /\ \A i \in DOMAIN file_queue : file_queue[i] \in Files \cup {SENTINEL})
    /\ [][(Len(file_queue) = 2 * NWorkers /\ ppc \in {"add", "signal"})
            => \/ UNCHANGED <<ppc, emitted, sent>> /\ Len(file_queue') <= Len(file_queue)
               \/ /\ Len(file_queue') = Len(file_queue) - 1
                  /\ \E w \in Workers : wpc[w] = "get" /\ wpc'[w] # "get"]_vars

\* The queue is full and the producer waits in signal_done with a sentinel,
\* every file of the target having been put.
C37_Witness ==
    /\ Len(file_queue) = 2 * NWorkers
    /\ ppc = "signal"
    /\ \E i \in DOMAIN file_queue : file_queue[i] \in Files

\* The number of folders between the drive root and a folder, the folder
\* included: 0 for the root.
RECURSIVE Level(_)
Level(folder) == IF folder = "root" THEN 0 ELSE 1 + Level(Parent(folder))

\* C38: the fallback recursive walk terminates on every finite drive tree,
\* and it never lists the children of a folder nested more than max_depth
\* levels below the drive root.
C38_WalkTerminatesWithinDepth ==
    /\ <>(fpc = "done" /\ stack = <<>>)
    /\ [](\A folder \in listed_folders : Level(folder) <= MaxDepth)

\* The walk has ended after it listed a folder at max_depth and called the
\* generator for a folder of that listing, one level deeper, which it did not
\* list.
C38_Witness ==
    /\ fpc = "done"
    /\ stack = <<>>
    /\ \E folder \in listed_folders :
         /\ Level(folder) = MaxDepth
         /\ \E d \in Listed(folder, last_backup_time) \cap SubFolders :
              d \notin listed_folders

====
